---- MODULE Spec2Model ----
(***************************************************************************)
(* serde-yaml: the document loader (src/src/loader.rs) and the event       *)
(* deserializer (src/src/de.rs) as a state machine.                        *)
(*                                                                         *)
(* The YAML text is represented by the event stream the libyaml parser     *)
(* produces for it; the mark (source position) of a parser event is its    *)
(* ordinal in that stream.  Scalar text is a sequence of characters.       *)
(* The recursive descent of DeserializerFromEvents is unfolded into an     *)
(* explicit call stack: `ctl` is the function about to run or the result   *)
(* being returned, `stack` holds the suspended callers, `des` the live     *)
(* DeserializerFromEvents objects and `cells` the live `pos` cursors.      *)
(***************************************************************************)
EXTENDS Integers, Sequences, FiniteSets, TLC

VARIABLES
    input,                  \* the parser's event stream for the input text
    parsed,                 \* number of parser events Loader::new has pulled
    events,                 \* Loader.events: <<[ev, mark]>>
    aliases,                \* Loader.aliases: alias id -> index in events
    document_lengths,       \* Loader.document_lengths: start index -> length
    anchors,                \* Loader::new local: anchor name -> alias id
    current_document_start, \* Loader::new local
    load,                   \* Loader::new: running, Ok(loader) or Err(e)
    pc,                     \* position of the caller in Deserializer::de / next
    target,                 \* the type T the caller decodes into
    document_count,         \* documents the loader has handed out so far
    document,               \* the Document being decoded
    ctl,                    \* decode machine: the running function / result
    stack,                  \* decode machine: suspended callers
    des,                    \* live DeserializerFromEvents objects
    cells,                  \* live `pos` cursors (top-level and one per jump)
    log,                    \* results of the T::deserialize calls so far
    steps,                  \* steps the decode has taken so far
    out                     \* what Deserializer::de returned

vars == <<input, parsed, events, aliases, document_lengths, anchors,
          current_document_start, load, pc, target, document_count, document,
          ctl, stack, des, cells, log, steps, out>>

loaderVars == <<parsed, events, aliases, document_lengths, anchors,
                current_document_start, load>>

machineVars == <<ctl, stack, des, cells, log, steps>>

(***************************************************************************)
(* Bounds of the model and program constants.                              *)
(***************************************************************************)
\* remaining_depth of a fresh DeserializerFromEvents
RecursionLimit == 128
\* deep documents nest up to RecursionLimit + MaxOver containers
MaxOver == 1
\* ... and from RecursionLimit - MaxUnder containers
MaxUnder == 0
\* live deserializers the call stack of the process has room for
StackRoom == 300
\* steps the decode may take for each container it enters
StepsPerEntry == 24
\* elements of the small sequences, entries of the small mappings
MaxItems == 3
\* items of the flat documents given to the loader alone
MaxLoadItems == 3
\* items of the flat documents that redefine an anchor
MaxRedefineItems == 4
\* documents the caller takes from the iterator
MaxDocuments == 3

NoPos == 0 - 1
None == "none"

(***************************************************************************)
(* Scalar text.                                                            *)
(***************************************************************************)
T_empty == << >>
T_tilde == <<"~">>
T_null == <<"n", "u", "l", "l">>
T_true == <<"t", "r", "u", "e">>
T_false == <<"f", "a", "l", "s", "e">>
T_str == <<"s", "t", "r">>
T_string == <<"s", "t", "r", "i", "n", "g">>
T_expected == <<"e", "x", "p", "e", "c", "t", "e", "d">>
T_0 == <<"0">>
T_1 == <<"1">>
T_2 == <<"2">>
T_3 == <<"3">>
T_16 == <<"1", "6">>
T_U64_MAX == <<"1", "8", "4", "4", "6", "7", "4", "4", "0", "7", "3", "7", "0", "9", "5", "5", "1", "6", "1", "5">>
T_U64_OVER == <<"1", "8", "4", "4", "6", "7", "4", "4", "0", "7", "3", "7", "0", "9", "5", "5", "1", "6", "1", "6">>
T_I64_MAX == <<"9", "2", "2", "3", "3", "7", "2", "0", "3", "6", "8", "5", "4", "7", "7", "5", "8", "0", "7">>
T_I64_MIN == <<"9", "2", "2", "3", "3", "7", "2", "0", "3", "6", "8", "5", "4", "7", "7", "5", "8", "0", "8">>
T_I64_UNDER == <<"9", "2", "2", "3", "3", "7", "2", "0", "3", "6", "8", "5", "4", "7", "7", "5", "8", "0", "9">>
T_U128_MAX == <<"3", "4", "0", "2", "8", "2", "3", "6", "6", "9", "2", "0", "9", "3", "8", "4", "6", "3", "4", "6", "3", "3", "7", "4", "6", "0", "7", "4", "3", "1", "7", "6", "8", "2", "1", "1", "4", "5", "5">>
T_U128_OVER == <<"3", "4", "0", "2", "8", "2", "3", "6", "6", "9", "2", "0", "9", "3", "8", "4", "6", "3", "4", "6", "3", "3", "7", "4", "6", "0", "7", "4", "3", "1", "7", "6", "8", "2", "1", "1", "4", "5", "6">>
T_I128_MAX == <<"1", "7", "0", "1", "4", "1", "1", "8", "3", "4", "6", "0", "4", "6", "9", "2", "3", "1", "7", "3", "1", "6", "8", "7", "3", "0", "3", "7", "1", "5", "8", "8", "4", "1", "0", "5", "7", "2", "7">>
T_I128_MIN == <<"1", "7", "0", "1", "4", "1", "1", "8", "3", "4", "6", "0", "4", "6", "9", "2", "3", "1", "7", "3", "1", "6", "8", "7", "3", "0", "3", "7", "1", "5", "8", "8", "4", "1", "0", "5", "7", "2", "8">>
T_30_digits == <<"1", "2", "3", "4", "5", "6", "7", "8", "9", "0", "1", "2", "3", "4", "5", "6", "7", "8", "9", "0", "1", "2", "3", "4", "5", "6", "7", "8", "9", "0">>
T_0123 == <<"0", "1", "2", "3">>
T_007 == <<"0", "0", "7">>
T_00 == <<"0", "0">>
T_0x1A == <<"0", "x", "1", "A">>
T_0o17 == <<"0", "o", "1", "7">>
T_0b101 == <<"0", "b", "1", "0", "1">>
T_26 == <<"2", "6">>
T_5 == <<"5">>
T_0xFFFFFFFFFFFFFFFF == <<"0", "x", "F", "F", "F", "F", "F", "F", "F", "F", "F", "F", "F", "F", "F", "F", "F", "F">>
T_0x10000000000000000 == <<"0", "x", "1", "0", "0", "0", "0", "0", "0", "0", "0", "0", "0", "0", "0", "0", "0", "0", "0">>
T_1_10 == <<"1", ".", "1", "0">>
T_a == <<"a">>
T_b == <<"b">>
T_c == <<"c">>
T_A == <<"A">>
T_B == <<"B">>
T_V == <<"V">>
T_other == <<"o", "t", "h", "e", "r">>

(***************************************************************************)
(* libyaml parser events (src/src/libyaml/event.rs).                       *)
(***************************************************************************)
TagNULL == "tag:yaml.org,2002:null"
TagBOOL == "tag:yaml.org,2002:bool"
TagINT == "tag:yaml.org,2002:int"
TagFLOAT == "tag:yaml.org,2002:float"

YStreamStart == [k |-> "StreamStart"]
YStreamEnd == [k |-> "StreamEnd"]
YDocumentStart == [k |-> "DocumentStart"]
YDocumentEnd == [k |-> "DocumentEnd"]
YAlias(a) == [k |-> "Alias", anchor |-> a]
YScalar(a, t, v, s) == [k |-> "Scalar", anchor |-> a, tag |-> t, value |-> v, style |-> s]
YSequenceStart(a) == [k |-> "SequenceStart", anchor |-> a]
YSequenceEnd == [k |-> "SequenceEnd"]
YMappingStart(a) == [k |-> "MappingStart", anchor |-> a]
YMappingEnd == [k |-> "MappingEnd"]
\* parser.next() returning Err: the text is not well-formed YAML from here on
YError == [k |-> "Error"]

YPlain(v) == YScalar(None, None, v, "Plain")
YAnchored(a, v) == YScalar(a, None, v, "Plain")

(***************************************************************************)
(* de::Event, the loader's output events.                                  *)
(***************************************************************************)
EvAlias(id) == [k |-> "Alias", id |-> id]
EvScalar(y) == [k |-> "Scalar", value |-> y.value, style |-> y.style, tag |-> y.tag]
EvSequenceStart == [k |-> "SequenceStart"]
EvSequenceEnd == [k |-> "SequenceEnd"]
EvMappingStart == [k |-> "MappingStart"]
EvMappingEnd == [k |-> "MappingEnd"]

(***************************************************************************)
(* Errors (src/src/error.rs).                                              *)
(***************************************************************************)
NoMsg == [code |-> "", n |-> 0, m |-> 0, s |-> << >>]
\* de::Error::custom and the helpers built on it: Message(msg, None)
Message(code, n, m, s) ==
    [kind |-> "Message", msg |-> [code |-> code, n |-> n, m |-> m, s |-> s],
     path |-> << >>, pos |-> NoPos]
end_of_stream == [kind |-> "EndOfStream", msg |-> NoMsg, path |-> << >>, pos |-> NoPos]
more_than_one_document ==
    [kind |-> "MoreThanOneDocument", msg |-> NoMsg, path |-> << >>, pos |-> NoPos]
scanner(mark) == [kind |-> "Scan", msg |-> NoMsg, path |-> << >>, pos |-> mark]
unknown_anchor(mark) ==
    [kind |-> "UnknownAnchor", msg |-> NoMsg, path |-> << >>, pos |-> mark]
recursion_limit_exceeded(mark) ==
    [kind |-> "RecursionLimitExceeded", msg |-> NoMsg, path |-> << >>, pos |-> mark]

\* Error::fix_marker: only a Message without a position is stamped
fix_marker_restamp(err, mark, path) ==
    IF err.kind = "Message"
    THEN [err EXCEPT !.pos = mark, !.path = path]
    ELSE err
fix_marker_never(err, mark, path) == err
fix_marker(err, mark, path) ==
    IF err.kind = "Message" /\ err.pos = NoPos
    THEN [err EXCEPT !.pos = mark, !.path = path]
    ELSE err

Ok(v) == [ok |-> TRUE, v |-> v]
Err(e) == [ok |-> FALSE, e |-> e]

(***************************************************************************)
(* Loader::new (src/src/loader.rs): one action per arm of the match on the *)
(* parser's next event.  `mark` is the ordinal of the event pulled.        *)
(***************************************************************************)
callerVars == <<input, pc, target, document_count, document, ctl, stack, des,
                cells, log, steps, out>>
HasNext ==
    /\ pc = "load" /\ load.st = "run" /\ parsed < Len(input)
    /\ UNCHANGED callerVars
NextYaml == input[parsed + 1]
NextMark == parsed + 1

Push(event, mark) == Append(events, [ev |-> event, mark |-> mark])

\* an anchor-bearing event: id = anchors.len(); anchors.insert(anchor, id);
\* loader.aliases.insert(id, loader.events.len())
AnchorId_fresh(anchor) ==
    IF DOMAIN anchors = {} THEN 0
    ELSE 1 + CHOOSE m \in {anchors[a] : a \in DOMAIN anchors} :
                 \A a \in DOMAIN anchors : anchors[a] <= m
AnchorId(anchor) == Cardinality(DOMAIN anchors)

AnchorIndex_after(len) == len + 1
AnchorIndex(len) == len

Insert(map, key, val) == [x \in DOMAIN map \cup {key} |-> IF x = key THEN val ELSE map[x]]

DefineAnchor(anchor) ==
    IF anchor = None
    THEN UNCHANGED <<anchors, aliases>>
    ELSE /\ anchors' = Insert(anchors, anchor, AnchorId(anchor))
         /\ aliases' = Insert(aliases, AnchorId(anchor), AnchorIndex(Len(events)))

\* the anchors map an alias is looked up in
AnchorsAtDocumentStart_local == << >>
AnchorsAtDocumentStart == anchors

LoadStreamStart ==
    /\ HasNext /\ NextYaml.k = "StreamStart"
    /\ parsed' = parsed + 1
    /\ UNCHANGED <<events, aliases, document_lengths, anchors,
                   current_document_start, load>>

LoadStreamEnd ==
    /\ HasNext /\ NextYaml.k = "StreamEnd"
    /\ parsed' = parsed + 1
    /\ load' = [st |-> "ok"]
    /\ UNCHANGED <<events, aliases, document_lengths, anchors, current_document_start>>

LoadDocumentStart ==
    /\ HasNext /\ NextYaml.k = "DocumentStart"
    /\ parsed' = parsed + 1
    /\ current_document_start' = Len(events)
    /\ anchors' = AnchorsAtDocumentStart
    /\ UNCHANGED <<events, aliases, document_lengths, load>>

LoadDocumentEnd ==
    /\ HasNext /\ NextYaml.k = "DocumentEnd"
    /\ parsed' = parsed + 1
    /\ document_lengths' = Insert(document_lengths, current_document_start,
                                  Len(events) - current_document_start)
    /\ current_document_start' = Len(events)
    /\ UNCHANGED <<events, aliases, anchors, load>>

UnknownAnchorMark_first(mark) == 1
UnknownAnchorMark(mark) == mark

LoadAlias ==
    /\ HasNext /\ NextYaml.k = "Alias"
    /\ parsed' = parsed + 1
    /\ IF NextYaml.anchor \in DOMAIN anchors
       THEN /\ events' = Push(EvAlias(anchors[NextYaml.anchor]), NextMark)
            /\ load' = load
       ELSE /\ load' = [st |-> "err", e |-> unknown_anchor(UnknownAnchorMark(NextMark))]
            /\ events' = events
    /\ UNCHANGED <<aliases, document_lengths, anchors, current_document_start>>

LoadScalar ==
    /\ HasNext /\ NextYaml.k = "Scalar"
    /\ parsed' = parsed + 1
    /\ DefineAnchor(NextYaml.anchor)
    /\ events' = Push(EvScalar(NextYaml), NextMark)
    /\ UNCHANGED <<document_lengths, current_document_start, load>>

LoadSequenceStart ==
    /\ HasNext /\ NextYaml.k = "SequenceStart"
    /\ parsed' = parsed + 1
    /\ DefineAnchor(NextYaml.anchor)
    /\ events' = Push(EvSequenceStart, NextMark)
    /\ UNCHANGED <<document_lengths, current_document_start, load>>

LoadSequenceEnd ==
    /\ HasNext /\ NextYaml.k = "SequenceEnd"
    /\ parsed' = parsed + 1
    /\ events' = Push(EvSequenceEnd, NextMark)
    /\ UNCHANGED <<aliases, document_lengths, anchors, current_document_start, load>>

LoadMappingStart ==
    /\ HasNext /\ NextYaml.k = "MappingStart"
    /\ parsed' = parsed + 1
    /\ DefineAnchor(NextYaml.anchor)
    /\ events' = Push(EvMappingStart, NextMark)
    /\ UNCHANGED <<document_lengths, current_document_start, load>>

LoadMappingEnd ==
    /\ HasNext /\ NextYaml.k = "MappingEnd"
    /\ parsed' = parsed + 1
    /\ events' = Push(EvMappingEnd, NextMark)
    /\ UNCHANGED <<aliases, document_lengths, anchors, current_document_start, load>>

\* let (event, mark) = parser.next()?;
LoadParserError ==
    /\ HasNext /\ NextYaml.k = "Error"
    /\ parsed' = parsed + 1
    /\ load' = [st |-> "err", e |-> scanner(NextMark)]
    /\ UNCHANGED <<events, aliases, document_lengths, anchors, current_document_start>>

Loader_new ==
    \/ LoadStreamStart \/ LoadStreamEnd \/ LoadDocumentStart \/ LoadDocumentEnd
    \/ LoadAlias \/ LoadScalar \/ LoadSequenceStart \/ LoadSequenceEnd
    \/ LoadMappingStart \/ LoadMappingEnd \/ LoadParserError

(***************************************************************************)
(* Input texts, as parser event streams.                                   *)
(***************************************************************************)
Wrap(node) == <<YDocumentStart>> \o node \o <<YDocumentEnd>>
Stream1(node) == <<YStreamStart>> \o Wrap(node) \o <<YStreamEnd>>
Stream2(n1, n2) == <<YStreamStart>> \o Wrap(n1) \o Wrap(n2) \o <<YStreamEnd>>

DigitChar == <<"0", "1", "2", "3", "4", "5", "6", "7", "8", "9">>
Num(i) == <<DigitChar[i + 1]>>
Keys == <<T_V, T_other, T_c, T_a, T_b>>

\* [[[ ... 1 ... ]]] with k sequences
NestSeq(k, anchor) ==
    [i \in 1..(2 * k + 1) |->
        IF i = 1 /\ k > 0 THEN YSequenceStart(anchor)
        ELSE IF i <= k THEN YSequenceStart(None)
        ELSE IF i = k + 1 THEN YPlain(T_1)
        ELSE YSequenceEnd]
\* {V: {V: ... 1 ... }} with k mappings
NestMap(k) ==
    [i \in 1..(3 * k + 1) |->
        IF i <= 2 * k THEN (IF i % 2 = 1 THEN YMappingStart(None) ELSE YPlain(T_V))
        ELSE IF i = 2 * k + 1 THEN YPlain(T_1)
        ELSE YMappingEnd]
\* {V: {V: ... A ... }} with k mappings: a value of enum R { A, V(Box<R>) }
NestEnum(k) ==
    [i \in 1..(3 * k + 1) |->
        IF i <= 2 * k THEN (IF i % 2 = 1 THEN YMappingStart(None) ELSE YPlain(T_V))
        ELSE IF i = 2 * k + 1 THEN YPlain(T_A)
        ELSE YMappingEnd]
\* [&a [[ ... ]], [*a]]: d sequences under the anchor, the alias two deep
NestAlias(d) ==
    <<YSequenceStart(None)>> \o NestSeq(d, "a")
        \o <<YSequenceStart(None), YAlias("a"), YSequenceEnd, YSequenceEnd>>

\* [!!bool str, [[ ... ]]]: a scalar that does not parse, then d sequences
BadThenNest(d) ==
    <<YSequenceStart(None), YScalar(None, TagBOOL, T_str, "Plain")>>
        \o NestSeq(d, None) \o <<YSequenceEnd>>

DeepRange == (RecursionLimit - MaxUnder)..(RecursionLimit + MaxOver)
DeepDocs ==
    {NestSeq(k, None) : k \in DeepRange} \cup {NestMap(k) : k \in DeepRange}
        \cup {NestAlias(k - 2) : k \in DeepRange}
        \cup {BadThenNest(k - 1) : k \in DeepRange}
        \cup {NestEnum(k) : k \in DeepRange}

\* containers that hold an alias to their own anchor
SelfDocs ==
    { <<YSequenceStart("a"), YAlias("a"), YSequenceEnd>>,
      <<YSequenceStart("a"), YPlain(T_1), YAlias("a"), YSequenceEnd>>,
      <<YMappingStart("a"), YPlain(T_V), YAlias("a"), YMappingEnd>>,
      <<YMappingStart("a"), YAlias("a"), YPlain(T_1), YMappingEnd>>,
      <<YSequenceStart("a"), YSequenceStart("b"), YAlias("a"), YSequenceEnd,
        YAlias("b"), YSequenceEnd>>,
      <<YSequenceStart("a"), YMappingStart("b"), YPlain(T_V), YAlias("a"),
        YMappingEnd, YSequenceEnd>> }

SmallSeq(n) == <<YSequenceStart(None)>> \o [i \in 1..n |-> YPlain(Num(i))] \o <<YSequenceEnd>>
SmallMap(n) ==
    <<YMappingStart(None)>>
        \o [i \in 1..(2 * n) |->
              IF i % 2 = 1
              THEN YScalar(None, None, Keys[(i + 1) \div 2], "DoubleQuoted")
              ELSE YPlain(<<"1", DigitChar[i \div 2]>>)]
        \o <<YMappingEnd>>
SmallDocs == {SmallSeq(n) : n \in 0..MaxItems} \cup {SmallMap(n) : n \in 0..MaxItems}

\* a: &a ~, b: &b [*a, *a], c: &c [*b, *b], expected: string   (test_bomb)
BombDoc ==
    <<YMappingStart(None),
      YPlain(T_a), YAnchored("a", T_tilde),
      YPlain(T_b), YSequenceStart("b"), YAlias("a"), YAlias("a"), YSequenceEnd,
      YPlain(T_c), YSequenceStart("c"), YAlias("b"), YAlias("b"), YSequenceEnd,
      YPlain(T_expected), YPlain(T_string),
      YMappingEnd>>

\* the nodes an anchor is put on
AnchoredNodes ==
    { <<YAnchored("x", T_1)>>,
      <<YAnchored("x", T_true)>>,
      <<YAnchored("x", T_tilde)>>,
      <<YAnchored("x", T_A)>>,
      <<YAnchored("x", T_1_10)>>,
      <<YScalar("x", TagBOOL, T_str, "Plain")>>,
      <<YScalar("x", "!V", T_16, "Plain")>>,
      <<YSequenceStart("x"), YPlain(T_1), YPlain(T_2), YSequenceEnd>>,
      <<YSequenceStart("x"), YPlain(T_1), YPlain(T_2), YPlain(T_3), YSequenceEnd>>,
      <<YMappingStart("x"), YPlain(T_V), YPlain(T_16), YMappingEnd>>,
      <<YMappingStart("x"), YPlain(T_expected), YPlain(T_string), YMappingEnd>>,
      <<YMappingStart("x"), YPlain(T_B), YSequenceStart(None), YPlain(T_1),
        YPlain(T_2), YSequenceEnd, YMappingEnd>> }
\* [&x node, *x]  and  a: &x node, b: *x, c: 3   (test_alias, test_enum_alias)
AliasDocs ==
    { <<YSequenceStart(None)>> \o n \o <<YAlias("x"), YSequenceEnd>> : n \in AnchoredNodes }
    \cup
    { <<YMappingStart(None), YPlain(T_a)>> \o n
        \o <<YPlain(T_b), YAlias("x"), YPlain(T_c), YPlain(T_3), YMappingEnd>> :
        n \in AnchoredNodes }

\* texts at and around the limits of the integer types, with and without a
\* radix prefix, a sign, leading zeros
NumberTexts ==
    { T_0, T_00, T_0123, T_007, T_26, T_1_10, T_30_digits,
      T_0x1A, T_0o17, T_0b101, T_0xFFFFFFFFFFFFFFFF, T_0x10000000000000000,
      T_U64_MAX, T_U64_OVER, T_I64_MAX, T_U128_MAX, T_U128_OVER }
    \cup { <<"-">> \o v : v \in {T_5, T_007, T_0x1A, T_I64_MIN, T_I64_UNDER, T_I128_MIN} }
    \cup { <<"+">> \o v : v \in {T_5, T_0123, T_0x1A} }

ScalarDocs ==
    { <<YPlain(v)>> : v \in {T_empty, T_tilde, T_null, T_true, T_false, T_str, T_1, T_A} }
    \cup { <<YPlain(v)>> : v \in NumberTexts }
    \cup { <<YScalar(None, None, T_tilde, "SingleQuoted")>>,
           <<YScalar(None, None, T_true, "DoubleQuoted")>>,
           <<YScalar(None, None, T_null, "DoubleQuoted")>>,
           <<YScalar(None, None, T_empty, "SingleQuoted")>>,
           <<YScalar(None, None, T_tilde, "Literal")>>,
           <<YScalar(None, TagNULL, T_null, "Folded")>>,
           <<YScalar(None, TagBOOL, T_str, "Plain")>>,
           <<YScalar(None, TagBOOL, T_true, "Plain")>>,
           <<YScalar(None, TagNULL, T_tilde, "Plain")>>,
           <<YScalar(None, TagNULL, T_str, "Plain")>>,
           <<YScalar(None, TagNULL, T_str, "DoubleQuoted")>>,
           <<YScalar(None, TagINT, T_16, "Plain")>>,
           <<YScalar(None, TagINT, T_str, "Plain")>>,
           <<YScalar(None, TagINT, T_1_10, "Plain")>>,
           <<YScalar(None, TagFLOAT, T_str, "Plain")>>,
           <<YScalar(None, TagFLOAT, T_1_10, "Plain")>>,
           <<YScalar(None, TagBOOL, T_1, "DoubleQuoted")>>,
           <<YScalar(None, TagBOOL, T_true, "DoubleQuoted")>>,
           <<YScalar(None, TagINT, T_true, "Plain")>>,
           <<YScalar(None, "!V", T_false, "Plain")>>,
           <<YScalar(None, "!V", T_16, "Plain")>>,
           <<YScalar(None, "!A", T_tilde, "Plain")>> }

EnumDocs ==
    { <<YMappingStart(None), YPlain(T_B), YSequenceStart(None), YPlain(T_1), YPlain(T_2),
        YSequenceEnd, YMappingEnd>>,
      <<YMappingStart(None), YPlain(T_A), YPlain(T_tilde), YMappingEnd>>,
      <<YMappingStart(None), YPlain(T_V), YPlain(T_str), YPlain(T_other), YPlain(T_1),
        YMappingEnd>>,
      <<YMappingStart(None), YPlain(T_other), YPlain(T_1), YPlain(T_V), YPlain(T_16),
        YMappingEnd>>,
      <<YMappingStart(None), YSequenceStart(None), YPlain(T_1), YSequenceEnd, YPlain(T_2),
        YMappingEnd>>,
      <<YMappingStart(None), YPlain(T_A), YPlain(T_tilde), YPlain(T_B),
        YSequenceStart(None), YPlain(T_1), YPlain(T_2), YSequenceEnd, YMappingEnd>>,
      <<YMappingStart(None), YPlain(T_B), YSequenceStart(None), YPlain(T_1), YPlain(T_2),
        YSequenceEnd, YPlain(T_A), YPlain(T_tilde), YMappingEnd>>,
      <<YSequenceStart(None), YScalar(None, None, T_V, "DoubleQuoted"), YSequenceEnd>>,
      <<YSequenceStart(None), YScalar(None, TagBOOL, T_str, "Plain"),
        YSequenceStart(None), YPlain(T_1), YSequenceEnd, YSequenceEnd>> }

Docs == DeepDocs \cup SelfDocs \cup SmallDocs \cup {BombDoc} \cup AliasDocs
            \cup ScalarDocs \cup EnumDocs

\* texts that do not load, and texts of zero or several documents
OtherStreams ==
    { <<YStreamStart, YStreamEnd>>,
      Stream2(<<YPlain(T_0)>>, <<YPlain(T_1)>>),
      Stream2(SmallSeq(2), SmallMap(1)),
      <<YStreamStart>> \o Wrap(<<YPlain(T_0)>>) \o Wrap(<<YPlain(T_1)>>)
          \o Wrap(<<YPlain(T_2)>>) \o <<YStreamEnd>>,
      Stream1(<<YAlias("some")>>),
      Stream1(<<YSequenceStart(None), YAlias("a"), YAnchored("a", T_1), YSequenceEnd>>),
      <<YStreamStart, YError>>,
      <<YStreamStart, YDocumentStart, YSequenceStart(None), YPlain(T_1), YError>>,
      <<YStreamStart>> \o Wrap(<<YPlain(T_0)>>) \o <<YError>> }

Streams == {Stream1(d) : d \in Docs} \cup OtherStreams

\* streams of three documents for the caller that iterates, the first and
\* the third alike, and a stream that does not load
Stream3(n1, n2, n3) == <<YStreamStart>> \o Wrap(n1) \o Wrap(n2) \o Wrap(n3) \o <<YStreamEnd>>
IterDocs ==
    { <<YPlain(T_true)>>,
      SmallSeq(2),
      SmallMap(1),
      <<YSequenceStart(None), YAnchored("x", T_1), YAlias("x"), YSequenceEnd>> }
IterStreams ==
    {Stream3(d, e, d) : d, e \in IterDocs}
    \cup { <<YStreamStart>> \o Wrap(SmallSeq(2)) \o <<YError>>, <<YStreamStart, YError>> }
IterTypes == {"Value", "Bool", "VecU64", "MapU64"}

\* the loader alone: every stream of one or two flat documents [item, ...]
LoadItems ==
    { <<YPlain(T_1)>>, <<YAnchored("a", T_1)>>, <<YAnchored("b", T_2)>>,
      <<YAlias("a")>>, <<YAlias("b")>>,
      <<YSequenceStart("a"), YSequenceEnd>>,
      <<YMappingStart("b"), YMappingEnd>> }
RECURSIVE Flatten(_)
Flatten(items) == IF items = << >> THEN << >> ELSE Head(items) \o Flatten(Tail(items))
FlatDoc(items) == <<YSequenceStart(None)>> \o Flatten(items) \o <<YSequenceEnd>>
\* documents that define the anchor a, redefine it, define b and refer to a
RedefineItems == { <<YAnchored("a", T_1)>>, <<YAnchored("b", T_2)>>, <<YAlias("a")>> }
RedefineStreams == { Stream1(FlatDoc(l)) : l \in [1..MaxRedefineItems -> RedefineItems] }
ItemLists == UNION { [1..n -> LoadItems] : n \in 0..MaxLoadItems }
LoadStreams ==
    { Stream1(FlatDoc(l)) : l \in ItemLists }
    \cup UNION { { Stream2(FlatDoc([j \in 1..i |-> l[j]]),
                            FlatDoc([j \in 1..(Len(l) - i) |-> l[i + j]])) :
                      i \in 0..Len(l) } : l \in ItemLists }
    \cup { <<YStreamStart, YStreamEnd>>, <<YStreamStart, YError>> }
    \cup RedefineStreams

(***************************************************************************)
(* Target types: the Deserialize impls and visitors the caller brings.     *)
(* A type is named; TypeDef gives its shape, so that types may be          *)
(* recursive.                                                              *)
(***************************************************************************)
TypeDef(ty) ==
    CASE ty = "Value" -> [t |-> "Value"]
      [] ty = "Ignored" -> [t |-> "Ignored"]
      [] ty = "Bool" -> [t |-> "Bool"]
      [] ty = "U64" -> [t |-> "U64"]
      [] ty = "F64" -> [t |-> "F64"]
      [] ty = "Unit" -> [t |-> "Unit"]
      [] ty = "String" -> [t |-> "String"]
      [] ty = "OptBool" -> [t |-> "Option", of |-> "Bool"]
      [] ty = "OptVec" -> [t |-> "Option", of |-> "Vec"]
      \* Vec<Value>
      [] ty = "Vec" -> [t |-> "Seq", of |-> "Value"]
      \* Vec<T> of the other types
      [] ty = "VecBool" -> [t |-> "Seq", of |-> "Bool"]
      [] ty = "VecU64" -> [t |-> "Seq", of |-> "U64"]
      [] ty = "VecString" -> [t |-> "Seq", of |-> "String"]
      [] ty = "VecOptBool" -> [t |-> "Seq", of |-> "OptBool"]
      [] ty = "VecTuple2" -> [t |-> "Seq", of |-> "Tuple2"]
      [] ty = "VecMapU64" -> [t |-> "Seq", of |-> "MapU64"]
      [] ty = "VecData" -> [t |-> "Seq", of |-> "Data"]
      [] ty = "VecE" -> [t |-> "Seq", of |-> "E"]
      [] ty = "VecVariant" -> [t |-> "Seq", of |-> "Variant"]
      [] ty = "VecIgnored" -> [t |-> "Seq", of |-> "Ignored"]
      \* struct L(Vec<L>)
      [] ty = "L" -> [t |-> "Newtype", of |-> "VecL"]
      [] ty = "VecL" -> [t |-> "Seq", of |-> "L"]
      \* struct M(BTreeMap<String, M>)
      [] ty = "M" -> [t |-> "Newtype", of |-> "MapM"]
      [] ty = "MapM" -> [t |-> "Map", of |-> "M"]
      \* BTreeMap<String, u64>
      [] ty = "MapU64" -> [t |-> "Map", of |-> "U64"]
      \* (u8, u8) and (u8, u8, u8, u8)
      [] ty = "Tuple2" -> [t |-> "Tuple", n |-> 2, of |-> "U64"]
      [] ty = "Tuple4" -> [t |-> "Tuple", n |-> 4, of |-> "U64"]
      \* struct Data { expected: String }
      [] ty = "Data" -> [t |-> "Struct", key |-> "Data.field",
                         fields |-> <<[name |-> T_expected, ty |-> "String"]>>]
      [] ty = "Data.field" -> [t |-> "Field", of |-> "Data"]
      \* struct AB { a: E, b: E }
      [] ty = "AB" -> [t |-> "Struct", key |-> "AB.field",
                       fields |-> <<[name |-> T_a, ty |-> "E"], [name |-> T_b, ty |-> "E"]>>]
      [] ty = "AB.field" -> [t |-> "Field", of |-> "AB"]
      \* enum E { A, B(u8, u8) }
      [] ty = "E" -> [t |-> "Enum", key |-> "E.variant",
                      variants |-> <<[name |-> T_A, kind |-> "unit", ty |-> "Unit"],
                                     [name |-> T_B, kind |-> "tuple", ty |-> "Tuple2"]>>]
      [] ty = "E.variant" -> [t |-> "VariantId", of |-> "E"]
      \* enum Variant { V(usize) }
      [] ty = "Variant" -> [t |-> "Enum", key |-> "Variant.variant",
                            variants |-> <<[name |-> T_V, kind |-> "newtype", ty |-> "U64"]>>]
      [] ty = "Variant.variant" -> [t |-> "VariantId", of |-> "Variant"]
      \* enum R { A, V(Box<R>) }
      [] ty = "R" -> [t |-> "Enum", key |-> "R.variant",
                      variants |-> <<[name |-> T_A, kind |-> "unit", ty |-> "Unit"],
                                     [name |-> T_V, kind |-> "newtype", ty |-> "R"]>>]
      [] ty = "R.variant" -> [t |-> "VariantId", of |-> "R"]
      \* the visitor of EnumAccess::variant_seed for a key that is no string
      [] ty = "BadKey" -> [t |-> "BadKey"]

\* the types a caller decodes a document into
Types == {"Value", "Ignored", "Bool", "U64", "F64", "Unit", "String", "OptBool", "OptVec",
          "Vec", "L", "M", "MapU64", "Tuple2", "Tuple4", "Data", "AB", "E",
          "Variant", "R", "VecBool", "VecU64", "VecString", "VecOptBool", "VecTuple2",
          "VecMapU64", "VecData", "VecE", "VecVariant", "VecIgnored"}

\* the Deserializer method T::deserialize calls
Method(ty) ==
    LET t == TypeDef(ty).t IN
    CASE t \in {"Value", "BadKey"} -> "any"
      [] t = "Ignored" -> "ignored_any"
      [] t = "Bool" -> "bool"
      [] t \in {"U64", "F64", "Unit"} -> "scalar"
      [] t \in {"String", "Field", "VariantId"} -> "str"
      [] t = "Option" -> "option"
      [] t \in {"Seq", "Tuple"} -> "seq"
      [] t = "Map" -> "map"
      [] t = "Struct" -> "struct"
      [] t = "Enum" -> "enum"
      [] t = "Newtype" -> "newtype_struct"

\* index of the entry of `list` called `name`, 0 if there is none
IndexOf(list, name) ==
    IF \E i \in 1..Len(list) : list[i].name = name
    THEN CHOOSE i \in 1..Len(list) : list[i].name = name
    ELSE 0

(***************************************************************************)
(* Scalars (src/src/de.rs 828-992).  A visitor callback is a record        *)
(* [cb, v]: the callback's name and its argument.                          *)
(***************************************************************************)
Callback(cb, v) == [cb |-> cb, v |-> v]
Unit == Callback("unit", 0)

Digits == {DigitChar[i] : i \in 1..10}
DigitValue(c) == (CHOOSE i \in 1..10 : DigitChar[i] = c) - 1
IsDigits(s) == Len(s) > 0 /\ \A i \in 1..Len(s) : s[i] \in Digits
StripPrefix(s, n) == [i \in 1..(Len(s) - n) |-> s[i + n]]
StartsWith(s, p) == Len(s) >= Len(p) /\ \A i \in 1..Len(p) : s[i] = p[i]

(***************************************************************************)
(* Integers.  An integer is [neg, mag]: its sign and its decimal digits,   *)
(* most significant first and without leading zeros, so that the 64-bit    *)
(* and 128-bit ranges are the ranges of the code.                          *)
(***************************************************************************)
LowerHex == <<"a", "b", "c", "d", "e", "f">>
UpperHex == <<"A", "B", "C", "D", "E", "F">>
NoDigit == 0 - 1
\* char::to_digit(radix)
to_digit(c, radix) ==
    LET d == IF c \in Digits THEN DigitValue(c)
             ELSE IF \E i \in 1..6 : LowerHex[i] = c
                  THEN 9 + (CHOOSE i \in 1..6 : LowerHex[i] = c)
             ELSE IF \E i \in 1..6 : UpperHex[i] = c
                  THEN 9 + (CHOOSE i \in 1..6 : UpperHex[i] = c)
             ELSE NoDigit
    IN IF d < radix THEN d ELSE NoDigit

\* the decimal digits of a natural number
RECURSIVE DecDigits(_)
DecDigits(n) == IF n < 10 THEN <<n>> ELSE Append(DecDigits(n \div 10), n % 10)
\* digits without their leading zeros
Canonical(mag) ==
    IF \A i \in 1..Len(mag) : mag[i] = 0 THEN <<0>>
    ELSE LET first == CHOOSE i \in 1..Len(mag) : mag[i] # 0 /\ \A j \in 1..(i - 1) : mag[j] = 0
         IN [i \in 1..(Len(mag) - first + 1) |-> mag[first + i - 1]]
\* the accumulator of from_str_radix, held as groups of four decimal digits
GroupDigits(groups) ==
    [i \in 1..(4 * Len(groups)) |->
        LET g == groups[(i - 1) \div 4 + 1]
            p == (i - 1) % 4
        IN (IF p = 0 THEN g \div 1000 ELSE IF p = 1 THEN g \div 100
            ELSE IF p = 2 THEN g \div 10 ELSE g) % 10]
\* acc * radix + carry, on groups
RECURSIVE MulAdd(_, _, _)
MulAdd(acc, radix, carry) ==
    IF acc = << >>
    THEN (IF carry = 0 THEN << >>
          ELSE IF carry < 10000 THEN <<carry>>
          ELSE <<carry \div 10000, carry % 10000>>)
    ELSE LET x == acc[Len(acc)] * radix + carry
         IN IF x < 10000 /\ Len(acc) = 1 THEN <<x>>
            ELSE Append(MulAdd(SubSeq(acc, 1, Len(acc) - 1), radix, x \div 10000), x % 10000)
\* the groups of the number whose first k digits in `radix` are ds, four
\* digits of the text taken at a time
RECURSIVE Accumulate(_, _, _)
Accumulate(ds, radix, k) ==
    IF k = 0 THEN << >>
    ELSE IF k < 4 THEN MulAdd(Accumulate(ds, radix, k - 1), radix, ds[k])
    ELSE MulAdd(Accumulate(ds, radix, k - 4), radix * radix * radix * radix,
                ((ds[k - 3] * radix + ds[k - 2]) * radix + ds[k - 1]) * radix + ds[k])
\* the decimal digits of the number whose first k digits in `radix` are ds
ToDecimal(ds, radix, k) == GroupDigits(Accumulate(ds, radix, k))
\* a <= b, on canonical decimal digits
LessEq(a, b) ==
    \/ Len(a) < Len(b)
    \/ /\ Len(a) = Len(b)
       /\ \/ a = b
          \/ \E i \in 1..Len(a) : a[i] < b[i] /\ \A j \in 1..(i - 1) : a[j] = b[j]
Number(neg, mag) == [neg |-> neg /\ mag # <<0>>, mag |-> mag]
Small(n) == Number(FALSE, DecDigits(n))
DigitsOf(text) == [i \in 1..Len(text) |-> DigitValue(text[i])]
\* Display of an integer
to_string(n) ==
    (IF n.neg THEN <<"-">> ELSE << >>) \o [i \in 1..Len(n.mag) |-> DigitChar[n.mag[i] + 1]]

\* u64::MAX, i64::MAX, -i64::MIN, u128::MAX, i128::MAX, -i128::MIN
IntTypes == {"u64", "i64", "u128", "i128"}
Signed(ty) == ty \in {"i64", "i128"}
MAX_64(ty) == IF ty \in {"u64", "u128"} THEN DigitsOf(T_U64_MAX) ELSE DigitsOf(T_I64_MAX)
MAX(ty) ==
    CASE ty = "u64" -> DigitsOf(T_U64_MAX)
      [] ty = "i64" -> DigitsOf(T_I64_MAX)
      [] ty = "u128" -> DigitsOf(T_U128_MAX)
      [] ty = "i128" -> DigitsOf(T_I128_MAX)
MIN(ty) ==
    CASE ty = "i64" -> DigitsOf(T_I64_MIN)
      [] ty = "i128" -> DigitsOf(T_I128_MIN)
      [] OTHER -> <<0>>

\* <ty>::from_str_radix(src, radix): an optional sign (- for the signed
\* types only), then at least one digit of the radix, the value in range
checked(neg, mag, ty) ==
    IF LessEq(mag, IF neg THEN MIN(ty) ELSE MAX(ty)) THEN Ok(Number(neg, mag)) ELSE Err(None)
from_digits(neg, ds, radix, ty) ==
    IF ds = << >> \/ \E i \in 1..Len(ds) : ds[i] = NoDigit THEN Err(None)
    \* in radix ten the accumulated value has the digits of the text
    ELSE checked(neg, Canonical(IF radix = 10 THEN ds ELSE ToDecimal(ds, radix, Len(ds))), ty)
from_signed(src, sign, radix, ty) ==
    from_digits(sign = 1 /\ src[1] = "-",
                [i \in 1..(Len(src) - sign) |-> to_digit(src[i + sign], radix)], radix, ty)
from_str_radix(src, radix, ty) ==
    from_signed(src, IF src # << >> /\ (src[1] = "+" \/ (src[1] = "-" /\ Signed(ty)))
                     THEN 1 ELSE 0,
                radix, ty)

parse_null_tilde(scalar) == scalar = T_tilde
parse_null(scalar) == scalar = T_tilde \/ scalar = T_null

parse_bool(scalar) ==
    IF scalar = T_true THEN Ok(TRUE)
    ELSE IF scalar = T_false THEN Ok(FALSE)
    ELSE Err(None)

digits_but_not_number_never(scalar) == FALSE
digits_but_not_number(scalar) ==
    LET s == IF scalar # << >> /\ scalar[1] \in {"-", "+"} THEN StripPrefix(scalar, 1)
             ELSE scalar
    IN Len(s) > 1 /\ s[1] = "0" /\ \A i \in 2..Len(s) : s[i] \in Digits

\* the radix a prefix 0x, 0o, 0b stands for
Radixes == <<[prefix |-> <<"0", "x">>, radix |-> 16],
             [prefix |-> <<"0", "o">>, radix |-> 8],
             [prefix |-> <<"0", "b">>, radix |-> 2]>>

\* if let Ok(int) = from_str_radix(rest, 16) { return Some(int) }, then 8, then
\* 2: the first that parses, else what follows
first_ok(prefixed, otherwise) ==
    IF prefixed[1].ok THEN prefixed[1]
    ELSE IF prefixed[2].ok THEN prefixed[2]
    ELSE IF prefixed[3].ok THEN prefixed[3]
    ELSE otherwise

unprefixed(scalar, unsigned, ty) ==
    IF digits_but_not_number(scalar) THEN Err(None) ELSE from_str_radix(unsigned, 10, ty)

unsigned_from(scalar, unpositive, ty) ==
    first_ok([i \in 1..3 |->
                 IF StartsWith(unpositive, Radixes[i].prefix)
                 THEN from_str_radix(StripPrefix(unpositive, 2), Radixes[i].radix, ty)
                 ELSE Err(None)],
             unprefixed(scalar, unpositive, ty))

parse_unsigned_int(scalar, ty) ==
    unsigned_from(scalar,
                  IF StartsWith(scalar, <<"+">>) THEN StripPrefix(scalar, 1) ELSE scalar, ty)

parse_negative_int(scalar, ty) ==
    first_ok([i \in 1..3 |->
                 IF StartsWith(scalar, <<"-">> \o Radixes[i].prefix)
                 THEN from_str_radix(<<"-">> \o StripPrefix(scalar, 3), Radixes[i].radix, ty)
                 ELSE Err(None)],
             unprefixed(scalar, scalar, ty))

\* v.parse::<i64>()
parse_i64(v) == from_str_radix(v, 10, "i64")

\* v.parse::<f64>() giving a finite number: [sign] digits [. digits]
parse_f64(v) ==
    LET u == IF v # << >> /\ v[1] \in {"-", "+"} THEN StripPrefix(v, 1) ELSE v
        dots == {i \in 1..Len(u) : u[i] = "."}
    IN /\ \A i \in 1..Len(u) : u[i] \in Digits \cup {"."}
       /\ Cardinality(dots) <= 1
       /\ \E i \in 1..Len(u) : u[i] \in Digits

invalid_type(unexp, exp) == Err(Message("invalid_type", 0, 0, <<unexp, exp>>))
invalid_value(unexp, exp) == Err(Message("invalid_value", 0, 0, <<unexp, exp>>))
invalid_length(found, exp, what) == Err(Message("invalid_length", found, exp, <<what>>))

\* the visitor of `ty` receiving a scalar callback; t its kind, of the struct or
\* enum whose field or variant names it looks up
visit(ty, t, of, c) ==
    CASE t = "Value" ->
            \* visit_u64 narrows to I64, or keeps the digits as a String
            \* (src/src/value.rs 574-581); there is no visit_u128 or visit_i128
            IF c.cb = "u64"
            THEN IF LessEq(c.v.mag, MAX("i64")) THEN Ok(Callback("i64", c.v))
                 ELSE Ok(Callback("str", to_string(c.v)))
            ELSE IF c.cb \in {"u128", "i128"} THEN invalid_type(c.cb, ty)
            ELSE Ok(c)
      [] t = "Bool" -> IF c.cb = "bool" THEN Ok(c) ELSE invalid_type(c.cb, ty)
      [] t = "U64" ->
            IF c.cb = "u64" THEN Ok(c)
            ELSE IF c.cb = "i64"
                 THEN IF c.v.neg THEN invalid_value(c.cb, ty) ELSE Ok(Callback("u64", c.v))
                 ELSE invalid_type(c.cb, ty)
      \* the f64 visitor converts the integers it is given
      [] t = "F64" ->
            IF c.cb \in {"f64", "u64", "i64"} THEN Ok(Callback("f64", c.v))
            ELSE invalid_type(c.cb, ty)
      [] t = "Unit" -> IF c.cb = "unit" THEN Ok(c) ELSE invalid_type(c.cb, ty)
      [] t = "String" -> IF c.cb = "str" THEN Ok(c) ELSE invalid_type(c.cb, ty)
      [] t = "Field" ->
            IF c.cb = "str"
            THEN Ok(Callback("field", IndexOf(of.fields, c.v)))
            ELSE invalid_type(c.cb, ty)
      [] t = "VariantId" ->
            IF c.cb = "str"
            THEN IF IndexOf(of.variants, c.v) > 0
                 THEN Ok(Callback("variant", IndexOf(of.variants, c.v)))
                 ELSE Err(Message("unknown_variant", 0, 0, c.v))
            ELSE invalid_type(c.cb, ty)
      [] OTHER -> invalid_type(c.cb, ty)
Visit(ty, c) ==
    visit(ty, TypeDef(ty).t,
          IF TypeDef(ty).t \in {"Field", "VariantId"} THEN TypeDef(TypeDef(ty).of) ELSE TypeDef(ty),
          c)

\* if let Some(x) = parse(v) { return visitor.visit_<cb>(x) }
if_let_Some(r, cb, otherwise) == IF r.ok THEN Callback(cb, r.v) ELSE otherwise

\* the callback visit_untagged_str makes for the text v
untagged_callback(v) ==
    IF v = << >> \/ parse_null(v) THEN Unit
    ELSE if_let_Some(parse_bool(v), "bool",
         if_let_Some(parse_unsigned_int(v, "u64"), "u64",
         if_let_Some(parse_negative_int(v, "i64"), "i64",
         if_let_Some(parse_unsigned_int(v, "u128"), "u128",
         if_let_Some(parse_negative_int(v, "i128"), "i128",
         IF digits_but_not_number(v) THEN Callback("str", v)
         ELSE IF parse_f64(v) THEN Callback("f64", v)
         ELSE Callback("str", v))))))

visit_untagged_str(ty, v) == Visit(ty, untagged_callback(v))

\* Err(_) => Err(de::Error::invalid_value(Unexpected::Str(v), &exp))
parse_Err_as_str(ty, v, exp) == Visit(ty, Callback("str", v))
parse_Err(ty, v, exp) == invalid_value("str", exp)

\* match parse(v) { Ok(x) => visitor.visit_<cb>(x), Err(_) => Err(invalid_value) }
visit_parsed(ty, r, cb, v, exp) ==
    IF r.ok THEN Visit(ty, Callback(cb, r.v)) ELSE parse_Err(ty, v, exp)

visit_scalar(ty, scalar) ==
    LET v == scalar.value IN
    IF scalar.tag # None
    THEN IF scalar.tag = TagBOOL
         THEN visit_parsed(ty, parse_bool(v), "bool", v, "a boolean")
         ELSE IF scalar.tag = TagINT
         THEN visit_parsed(ty, parse_i64(v), "i64", v, "an integer")
         ELSE IF scalar.tag = TagFLOAT
         THEN IF parse_f64(v) THEN Visit(ty, Callback("f64", v))
              ELSE parse_Err(ty, v, "a float")
         ELSE IF scalar.tag = TagNULL
         THEN IF parse_null(v) THEN Visit(ty, Unit)
              ELSE parse_Err(ty, v, "null")
         ELSE Visit(ty, Callback("str", v))
    ELSE IF scalar.style = "Plain" THEN visit_untagged_str(ty, v)
    ELSE Visit(ty, Callback("str", v))

(***************************************************************************)
(* The decode machine: helpers.                                            *)
(***************************************************************************)
Segment(k, index, key) == [k |-> k, index |-> index, key |-> key]
Root == Segment("Root", 0, << >>)

\* the DeserializerFromEvents that is `self`, and its cursor *self.pos
Cur == des[Len(des)]
Pos == cells[Cur.cell]
\* self.path, root first
Path == [i \in 1..Len(des) |-> des[i].seg]

\* peek_event_mark: None past the last event, else (event, mark)
AtEnd == Pos >= Len(document.events)
PeekEvent == document.events[Pos + 1].ev
PeekMark == document.events[Pos + 1].mark
\* next_event_mark: *self.pos += 1
Advanced_twice == [cells EXCEPT ![Cur.cell] = @ + 2]
Advanced == [cells EXCEPT ![Cur.cell] = @ + 1]

Front(s) == [i \in 1..(Len(s) - 1) |-> s[i]]
Top == stack[Len(stack)]

\* a new deserializer on the same cursor, below `self`
SubDeserializer(seg) ==
    [remaining_depth |-> Cur.remaining_depth, seg |-> seg, cell |-> Cur.cell]

Deserialize(ty) == [op |-> "deserialize", ty |-> ty]
Ret(res) == [op |-> "ret", res |-> res, len |-> 0]
RetLen(res, len) == [op |-> "ret", res |-> res, len |-> len]
Panic(msg) == [op |-> "panic", msg |-> msg]

FixFrame(mark) == [k |-> "fix", mark |-> mark]
JumpFrame == [k |-> "jump"]

\* jump: *pos = *found
JumpTarget_next(found) == found + 1
JumpTarget(found) == found
\* jump: remaining_depth: self.remaining_depth
JumpDepth_fresh(remaining_depth) == RecursionLimit
JumpDepth_less(remaining_depth) == remaining_depth - 1
JumpDepth(remaining_depth) == remaining_depth

\* every T::deserialize call at an event is framed with the cursor it starts
\* at; the calls on an alias or on an anchored node are recorded in the log
AnchoredAt(pos) == \E id \in DOMAIN document.aliases : document.aliases[id] = pos
LogFrames ==
    IF AtEnd THEN << >>
    ELSE IF PeekEvent.k = "Alias" /\ PeekEvent.id \in DOMAIN document.aliases
    THEN <<[k |-> "log", start |-> document.aliases[PeekEvent.id], alias |-> TRUE,
            ty |-> ctl.ty, depth |-> Cur.remaining_depth, at |-> Pos, logged |-> TRUE]>>
    ELSE <<[k |-> "log", start |-> Pos, alias |-> FALSE,
            ty |-> ctl.ty, depth |-> Cur.remaining_depth, at |-> Pos,
            logged |-> AnchoredAt(Pos)]>>
\* the stack once a method has been entered and has pushed `frames`
Enter(frames) == stack \o LogFrames \o frames

outerVars == <<input, parsed, events, aliases, document_lengths, anchors,
               current_document_start, load, pc, target, document_count, document, out>>

Running(op) ==
    /\ pc = "decode" /\ ctl.op = op /\ Len(des) <= StackRoom
    /\ steps' = steps + 1
    /\ UNCHANGED outerVars
Calling(method) == Running("deserialize") /\ Method(ctl.ty) = method
Returning(k) == Running("ret") /\ stack # << >> /\ Top.k = k

\* unexpected(event) of invalid_type(event, exp): the scalar goes to a visitor
\* that rejects every callback
unexpected(r, exp) ==
    IF r.e.msg.code = "invalid_type" THEN invalid_type(r.e.msg.s[1], exp) ELSE r
invalid_type_event(event, exp) ==
    CASE event.k = "Scalar" -> unexpected(visit_scalar("BadKey", event), exp)
      [] event.k = "SequenceStart" -> invalid_type("seq", exp)
      [] event.k = "MappingStart" -> invalid_type("map", exp)

\* the alias event is consumed, then self.jump(&mut pos)?.deserialize_...(visitor):
\* a fresh cursor at the anchored node, a deserializer with the same remaining_depth
Jump(id, frames) ==
    IF id \in DOMAIN document.aliases
    THEN /\ cells' = Append(Advanced, JumpTarget(document.aliases[id]))
         /\ des' = Append(des, [remaining_depth |-> JumpDepth(Cur.remaining_depth),
                                seg |-> Segment("Alias", 0, << >>),
                                cell |-> Len(cells) + 1])
         /\ stack' = Enter(frames \o <<JumpFrame>>)
         /\ ctl' = Deserialize(ctl.ty)
         /\ log' = log
    ELSE /\ ctl' = Panic("unresolved alias")
         /\ UNCHANGED <<cells, des, stack, log>>

\* the method returns `res` at once
Return(res, cs) ==
    /\ ctl' = Ret(res)
    /\ stack' = Enter(<< >>)
    /\ cells' = cs
    /\ des' = des
    /\ log' = log

(***************************************************************************)
(* The Deserializer methods of DeserializerFromEvents (de.rs 1026-1410).   *)
(***************************************************************************)
\* the methods that differ only in the events they accept
Dispatch(accepts_scalar, accepts_seq, accepts_map) ==
    IF AtEnd THEN Return(Err(end_of_stream), cells)
    ELSE LET next == PeekEvent
             mark == PeekMark
         IN CASE next.k = "Alias" -> Jump(next.id, <<FixFrame(mark)>>) /\ log' = log
              [] next.k = "Scalar" /\ accepts_scalar ->
                    /\ ctl' = Ret(visit_scalar(ctl.ty, next))
                    /\ stack' = Enter(<<FixFrame(mark)>>)
                    /\ cells' = Advanced
                    /\ UNCHANGED <<des, log>>
              [] next.k = "SequenceStart" /\ accepts_seq ->
                    /\ ctl' = [op |-> "visit_sequence", ty |-> ctl.ty, mark |-> mark]
                    /\ stack' = Enter(<<FixFrame(mark)>>)
                    /\ cells' = Advanced
                    /\ UNCHANGED <<des, log>>
              [] next.k = "MappingStart" /\ accepts_map ->
                    /\ ctl' = [op |-> "visit_mapping", ty |-> ctl.ty, mark |-> mark]
                    /\ stack' = Enter(<<FixFrame(mark)>>)
                    /\ cells' = Advanced
                    /\ UNCHANGED <<des, log>>
              [] next.k \in {"Scalar", "SequenceStart", "MappingStart"} ->
                    /\ ctl' = Ret(invalid_type_event(next, ctl.ty))
                    /\ stack' = Enter(<<FixFrame(mark)>>)
                    /\ cells' = Advanced
                    /\ UNCHANGED <<des, log>>
              [] OTHER ->
                    /\ ctl' = Panic("unexpected end")
                    /\ cells' = Advanced
                    /\ UNCHANGED <<stack, des, log>>

deserialize_any ==
    /\ Calling("any")
    /\ IF AtEnd \/ PeekEvent.k \notin {"SequenceEnd", "MappingEnd"}
       THEN Dispatch(TRUE, TRUE, TRUE)
       ELSE /\ ctl' = Panic(IF PeekEvent.k = "SequenceEnd" THEN "unexpected end of sequence"
                            ELSE "unexpected end of mapping")
            /\ cells' = Advanced
            /\ UNCHANGED <<stack, des, log>>

deserialize_scalar ==
    /\ Calling("scalar")
    /\ Dispatch(TRUE, FALSE, FALSE)

\* Event::Scalar(scalar) if scalar.style == ScalarStyle::Plain
plain_scalar_any(scalar) == TRUE
plain_scalar(scalar) == scalar.style = "Plain"
deserialize_bool ==
    /\ Calling("bool")
    /\ IF ~AtEnd /\ PeekEvent.k = "Scalar"
       THEN LET next == PeekEvent
            IN /\ ctl' = Ret(IF plain_scalar(next) /\ parse_bool(next.value).ok
                             THEN Visit(ctl.ty, Callback("bool", parse_bool(next.value).v))
                             ELSE invalid_type_event(next, ctl.ty))
               /\ stack' = Enter(<<FixFrame(PeekMark)>>)
               /\ cells' = Advanced
               /\ UNCHANGED <<des, log>>
       ELSE Dispatch(FALSE, FALSE, FALSE)

\* visitor.visit_str(v), v the bytes of the scalar
visit_str_inferred(ty, v) == visit_untagged_str(ty, v)
visit_str(ty, v) == Visit(ty, Callback("str", v))

deserialize_str ==
    /\ Calling("str")
    /\ IF ~AtEnd /\ PeekEvent.k = "Scalar"
       THEN /\ ctl' = Ret(visit_str(ctl.ty, PeekEvent.value))
            /\ stack' = Enter(<<FixFrame(PeekMark)>>)
            /\ cells' = Advanced
            /\ UNCHANGED <<des, log>>
       ELSE Dispatch(FALSE, FALSE, FALSE)

deserialize_seq ==
    /\ Calling("seq")
    /\ Dispatch(FALSE, TRUE, FALSE)

deserialize_map ==
    /\ Calling("map")
    /\ Dispatch(FALSE, FALSE, TRUE)

deserialize_struct ==
    /\ Calling("struct")
    /\ Dispatch(FALSE, TRUE, TRUE)

\* visitor.visit_newtype_struct(self): the inner type on the same deserializer
deserialize_newtype_struct ==
    /\ Calling("newtype_struct")
    /\ ctl' = Deserialize(TypeDef(ctl.ty).of)
    /\ stack' = Enter(<<[k |-> "wrap", cb |-> "newtype"]>>)
    /\ UNCHANGED <<des, cells, log>>

\* scalar.style == ScalarStyle::Plain
is_plain_or_single_quoted(style) == style \in {"Plain", "SingleQuoted"}
is_plain(style) == style = "Plain"

deserialize_option ==
    /\ Calling("option")
    /\ IF AtEnd THEN Return(Err(end_of_stream), cells) /\ log' = log
       ELSE LET next == PeekEvent
                some == /\ ctl' = Deserialize(TypeDef(ctl.ty).of)
                        /\ stack' = Enter(<<[k |-> "wrap", cb |-> "some"]>>)
                        /\ UNCHANGED <<des, cells, log>>
                none == Return(Ok(Callback("none", 0)), Advanced) /\ log' = log
            IN CASE next.k = "Alias" ->
                       \* *self.pos += 1 comes first
                       /\ Jump(next.id, << >>)
                       /\ log' = log
                 [] next.k = "Scalar" ->
                       IF ~is_plain(next.style) THEN some
                       ELSE IF next.tag # None
                       THEN IF next.tag = TagNULL
                            THEN IF parse_null(next.value) THEN none
                                 ELSE Return(invalid_value("str", "null"), cells) /\ log' = log
                            ELSE some
                       ELSE IF next.value # << >> /\ ~parse_null(next.value) THEN some
                       ELSE none
                 [] next.k \in {"SequenceStart", "MappingStart"} -> some
                 [] OTHER ->
                       /\ ctl' = Panic("unexpected end")
                       /\ UNCHANGED <<stack, des, cells, log>>

deserialize_ignored_any ==
    /\ Calling("ignored_any")
    /\ ctl' = [op |-> "ignore_any", ty |-> ctl.ty, nest |-> << >>, start |-> Pos,
               depth |-> Cur.remaining_depth]
    /\ stack' = Enter(<< >>)
    /\ UNCHANGED <<des, cells, log>>

(***************************************************************************)
(* Containers: visit_sequence, visit_mapping, recursion_check and the      *)
(* visitors' visit_seq / visit_map (de.rs 499-527, 587-682).               *)
(***************************************************************************)
\* recursion_check(mark, f): the budget is taken from `self` while f runs
RecursionBudget_lax(previous_depth) == previous_depth >= 0
RecursionBudget(previous_depth) == previous_depth >= 1

recursion_check(body) ==
    LET previous_depth == Cur.remaining_depth
    IN IF RecursionBudget(previous_depth)
       THEN /\ des' = [des EXCEPT ![Len(des)].remaining_depth = previous_depth - 1]
            /\ stack' = Append(stack, [k |-> "recursion_check", container |-> body,
                                       previous_depth |-> previous_depth,
                                       start |-> Pos - 1])
            /\ ctl' = [op |-> body, ty |-> ctl.ty, len |-> 0, acc |-> << >>, key |-> None]
       ELSE /\ ctl' = Ret(Err(recursion_limit_exceeded(ctl.mark)))
            /\ UNCHANGED <<des, stack>>

visit_sequence ==
    /\ Running("visit_sequence")
    /\ recursion_check("visit_seq")
    /\ UNCHANGED <<cells, log>>

visit_mapping ==
    /\ Running("visit_mapping")
    /\ recursion_check("visit_map")
    /\ UNCHANGED <<cells, log>>

\* self.remaining_depth = previous_depth, whatever result f gave
restored_depth_if_ok(previous_depth, result) ==
    IF result.ok THEN previous_depth ELSE previous_depth - 1
restored_depth(previous_depth, result) == previous_depth

\* recursion_check after f: the budget is restored, then end_sequence(len) /
\* end_mapping(len) unless f failed
recursion_check_return ==
    /\ Returning("recursion_check")
    /\ des' = [des EXCEPT ![Len(des)].remaining_depth = restored_depth(Top.previous_depth, ctl.res)]
    /\ stack' = Front(stack)
    /\ ctl' = IF ctl.res.ok
              THEN [op |-> IF Top.container = "visit_seq" THEN "end_sequence"
                           ELSE "end_mapping",
                    len |-> ctl.len, total |-> ctl.len, value |-> ctl.res,
                    start |-> Top.start, phase |-> "key"]
              ELSE Ret(ctl.res)
    /\ UNCHANGED <<cells, log>>

\* the visitors of the target types on a sequence
SeqAccepts(ty) == TypeDef(ty).t \in {"Value", "Seq", "Tuple", "Struct"}
SeqExpects(ty) ==
    LET T == TypeDef(ty)
    IN CASE T.t = "Tuple" -> T.n
         [] T.t = "Struct" -> Len(T.fields)
         [] OTHER -> 0 - 1
SeqElement(ty, index) ==
    LET T == TypeDef(ty)
    IN CASE T.t = "Value" -> "Value"
         [] T.t = "Struct" -> T.fields[index + 1].ty
         [] OTHER -> T.of

visit_seq ==
    /\ Running("visit_seq")
    /\ ctl' = IF ~SeqAccepts(ctl.ty) THEN Ret(invalid_type("seq", ctl.ty))
              ELSE IF Len(ctl.acc) = SeqExpects(ctl.ty)
              THEN RetLen(Ok(Callback("seq", ctl.acc)), ctl.len)
              ELSE [ctl EXCEPT !.op = "next_element_seed"]
    /\ UNCHANGED <<stack, des, cells, log>>

next_element_seed ==
    /\ Running("next_element_seed")
    /\ IF AtEnd
       THEN ctl' = Ret(Err(end_of_stream)) /\ UNCHANGED <<stack, des>>
       ELSE IF PeekEvent.k = "SequenceEnd"
       THEN \* Ok(None): a tuple or struct visitor misses an element
            /\ ctl' = IF SeqExpects(ctl.ty) < 0
                      THEN RetLen(Ok(Callback("seq", ctl.acc)), ctl.len)
                      ELSE Ret(invalid_length(Len(ctl.acc), SeqExpects(ctl.ty), ctl.ty))
            /\ UNCHANGED <<stack, des>>
       ELSE /\ des' = Append(des, SubDeserializer(Segment("Seq", ctl.len, << >>)))
            /\ stack' = Append(stack, [k |-> "element",
                                       saved |-> [ctl EXCEPT !.op = "visit_seq",
                                                             !.len = @ + 1]])
            /\ ctl' = Deserialize(SeqElement(ctl.ty, Len(ctl.acc)))
    /\ UNCHANGED <<cells, log>>

next_element_return ==
    /\ Returning("element")
    /\ des' = Front(des)
    /\ stack' = Front(stack)
    /\ ctl' = IF ctl.res.ok
              THEN [Top.saved EXCEPT !.acc = Append(@, ctl.res.v)]
              ELSE Ret(ctl.res)
    /\ UNCHANGED <<cells, log>>

\* the visitors of the target types on a mapping
MapAccepts(ty) == TypeDef(ty).t \in {"Value", "Map", "Struct"}
MapKey(ty) ==
    LET T == TypeDef(ty)
    IN CASE T.t = "Value" -> "Value"
         [] T.t = "Map" -> "String"
         [] T.t = "Struct" -> T.key
\* what the visitor does with the key k: the type of the value it asks for
MapValue(ty, k) ==
    LET T == TypeDef(ty)
    IN CASE T.t = "Value" -> "Value"
         [] T.t = "Map" -> T.of
         [] T.t = "Struct" -> IF k.v = 0 THEN "Ignored" ELSE T.fields[k.v].ty
HasKey(acc, k) == \E i \in 1..Len(acc) : acc[i].key.cb = k.cb /\ acc[i].key = k
\* Mapping::insert, BTreeMap::insert: a later entry replaces the value
MapInsert(acc, k, v) ==
    IF HasKey(acc, k)
    THEN [i \in 1..Len(acc) |->
            IF acc[i].key.cb = k.cb /\ acc[i].key = k THEN [key |-> k, value |-> v]
            ELSE acc[i]]
    ELSE Append(acc, [key |-> k, value |-> v])
\* Ok(None) from next_key: the visitor builds its value
MapFinish(ty, acc) ==
    LET T == TypeDef(ty)
        missing == IF T.t = "Struct"
                   THEN {f \in 1..Len(T.fields) : ~HasKey(acc, Callback("field", f))}
                   ELSE {}
    IN IF missing # {}
       THEN Err(Message("missing_field", 0, 0,
                        T.fields[CHOOSE f \in missing : \A g \in missing : f <= g].name))
       ELSE Ok(Callback("map", acc))

\* self.len += 1
MapLenAfterKey_same(len) == len
MapLenAfterKey(len) == len + 1

visit_map ==
    /\ Running("visit_map")
    /\ ctl' = IF ~MapAccepts(ctl.ty) THEN Ret(invalid_type("map", ctl.ty))
              ELSE [ctl EXCEPT !.op = "next_key_seed"]
    /\ UNCHANGED <<stack, des, cells, log>>

\* the key is read through the mapping's own deserializer
next_key_seed ==
    /\ Running("next_key_seed")
    /\ IF AtEnd
       THEN ctl' = Ret(Err(end_of_stream)) /\ stack' = stack
       ELSE IF PeekEvent.k = "MappingEnd"
       THEN ctl' = RetLen(MapFinish(ctl.ty, ctl.acc), ctl.len) /\ stack' = stack
       ELSE /\ stack' = Append(stack,
                  [k |-> "key",
                   saved |-> [ctl EXCEPT !.len = MapLenAfterKey(@),
                                         !.key = IF PeekEvent.k = "Scalar"
                                                 THEN PeekEvent.value ELSE None]])
            /\ ctl' = Deserialize(MapKey(ctl.ty))
    /\ UNCHANGED <<des, cells, log>>

next_key_return ==
    /\ Returning("key")
    /\ stack' = Front(stack)
    /\ ctl' = IF ~ctl.res.ok THEN Ret(ctl.res)
              ELSE IF TypeDef(Top.saved.ty).t = "Struct" /\ ctl.res.v.v > 0
                      /\ HasKey(Top.saved.acc, ctl.res.v)
              THEN Ret(Err(Message("duplicate_field", 0, 0,
                                   TypeDef(Top.saved.ty).fields[ctl.res.v.v].name)))
              ELSE [op |-> "next_value_seed", ty |-> Top.saved.ty, len |-> Top.saved.len,
                    acc |-> Top.saved.acc, key |-> Top.saved.key, k |-> ctl.res.v]
    /\ UNCHANGED <<des, cells, log>>

next_value_seed ==
    /\ Running("next_value_seed")
    /\ des' = Append(des, SubDeserializer(IF ctl.key # None
                                          THEN Segment("Map", 0, ctl.key)
                                          ELSE Segment("Unknown", 0, << >>)))
    /\ stack' = Append(stack, [k |-> "value", saved |-> ctl])
    /\ ctl' = Deserialize(MapValue(ctl.ty, ctl.k))
    /\ UNCHANGED <<cells, log>>

next_value_return ==
    /\ Returning("value")
    /\ des' = Front(des)
    /\ stack' = Front(stack)
    /\ ctl' = IF ctl.res.ok
              THEN [op |-> "visit_map", ty |-> Top.saved.ty, len |-> Top.saved.len,
                    acc |-> MapInsert(Top.saved.acc, Top.saved.k, ctl.res.v), key |-> None]
              ELSE Ret(ctl.res)
    /\ UNCHANGED <<cells, log>>

(***************************************************************************)
(* ignore_any, end_sequence, end_mapping (de.rs 463-497, 529-585).         *)
(***************************************************************************)
\* the stack of open containers after an event of kind k
NestAfter_flat(nest, k) ==
    CASE k = "MappingStart" -> Append(nest, "Mapping")
      [] k \in {"SequenceEnd", "MappingEnd"} -> Front(nest)
      [] OTHER -> nest
NestAfter(nest, k) ==
    CASE k = "SequenceStart" -> Append(nest, "Sequence")
      [] k = "MappingStart" -> Append(nest, "Mapping")
      [] k \in {"SequenceEnd", "MappingEnd"} -> Front(nest)
      [] OTHER -> nest

\* one turn of the loop of ignore_any; deserialize_ignored_any ends with
\* visitor.visit_unit()
ignore_any ==
    /\ Running("ignore_any")
    /\ IF AtEnd
       THEN ctl' = Ret(Err(end_of_stream)) /\ cells' = cells
       ELSE LET k == PeekEvent.k
                nest == ctl.nest
                after == NestAfter(nest, k)
                bad == \/ k = "SequenceEnd" /\ (nest = << >> \/ nest[Len(nest)] # "Sequence")
                       \/ k = "MappingEnd" /\ (nest = << >> \/ nest[Len(nest)] # "Mapping")
            IN /\ cells' = Advanced
               /\ ctl' = IF bad THEN Panic("unexpected end")
                         ELSE IF after = << >> THEN Ret(Ok(Callback("ignored", 0)))
                         ELSE [ctl EXCEPT !.nest = after]
    /\ UNCHANGED <<stack, des, log>>

\* total == len
LengthMatches_atLeast(total, len) == total >= len
LengthMatches(total, len) == total = len

\* the (total, len) pair the length error reports
LengthError_swapped(total, len, what) == invalid_length(len, total, what)
LengthError(total, len, what) == invalid_length(total, len, what)

end_sequence ==
    /\ Running("end_sequence")
    /\ IF AtEnd
       THEN ctl' = Ret(Err(end_of_stream)) /\ UNCHANGED <<stack, des, cells>>
       ELSE IF PeekEvent.k = "SequenceEnd"
       THEN /\ cells' = Advanced
            /\ ctl' = IF LengthMatches(ctl.total, ctl.len) THEN Ret(ctl.value)
                      ELSE Ret(LengthError(ctl.total, ctl.len, "sequence"))
            /\ UNCHANGED <<stack, des>>
       ELSE \* next_element::<Ignore>
            /\ des' = Append(des, SubDeserializer(Segment("Seq", ctl.total, << >>)))
            /\ stack' = Append(stack, [k |-> "drain", saved |-> [ctl EXCEPT !.total = @ + 1]])
            /\ ctl' = Deserialize("Ignored")
            /\ cells' = cells
    /\ log' = log

end_mapping ==
    /\ Running("end_mapping")
    /\ IF ctl.phase = "value"
       THEN \* next_value::<Ignore>
            /\ des' = Append(des, SubDeserializer(IF ctl.key # None
                                                  THEN Segment("Map", 0, ctl.key)
                                                  ELSE Segment("Unknown", 0, << >>)))
            /\ stack' = Append(stack, [k |-> "drain", saved |-> [ctl EXCEPT !.phase = "key"]])
            /\ ctl' = Deserialize("Ignored")
            /\ cells' = cells
       ELSE IF AtEnd
       THEN ctl' = Ret(Err(end_of_stream)) /\ UNCHANGED <<stack, des, cells>>
       ELSE IF PeekEvent.k = "MappingEnd"
       THEN /\ cells' = Advanced
            /\ ctl' = IF LengthMatches(ctl.total, ctl.len) THEN Ret(ctl.value)
                      ELSE Ret(LengthError(ctl.total, ctl.len, "map"))
            /\ UNCHANGED <<stack, des>>
       ELSE \* next_key::<Ignore>, through the mapping's own deserializer
            /\ stack' = Append(stack,
                   [k |-> "drain_key",
                    saved |-> [op |-> "end_mapping", len |-> ctl.len, total |-> MapLenAfterKey(ctl.total),
                               value |-> ctl.value, start |-> ctl.start, phase |-> "value",
                               key |-> IF PeekEvent.k = "Scalar" THEN PeekEvent.value
                                       ELSE None]])
            /\ ctl' = Deserialize("Ignored")
            /\ UNCHANGED <<des, cells>>
    /\ log' = log

\* an ignored key has been skipped
drain_key_return ==
    /\ Returning("drain_key")
    /\ stack' = Front(stack)
    /\ ctl' = IF ctl.res.ok THEN Top.saved ELSE Ret(ctl.res)
    /\ UNCHANGED <<des, cells, log>>

\* an ignored element or value has been skipped
drain_return ==
    /\ Returning("drain")
    /\ des' = Front(des)
    /\ stack' = Front(stack)
    /\ ctl' = IF ctl.res.ok THEN Top.saved ELSE Ret(ctl.res)
    /\ UNCHANGED <<cells, log>>

(***************************************************************************)
(* Enums: deserialize_enum, EnumAccess, UnitVariantAccess, VariantAccess   *)
(* (de.rs 685-826, 1349-1394).                                             *)
(***************************************************************************)
\* the variant name a local tag !name spells
TagVariant(tag) ==
    CASE tag = "!A" -> T_A
      [] tag = "!B" -> T_B
      [] tag = "!V" -> T_V
      [] OTHER -> << >>

deserialize_enum ==
    /\ Calling("enum")
    /\ IF AtEnd THEN Return(Err(end_of_stream), cells)
       ELSE LET next == PeekEvent
                T == TypeDef(ctl.ty)
            IN CASE next.k = "Alias" -> Jump(next.id, << >>)
                 [] next.k = "Scalar" ->
                       /\ IF next.tag # None /\ IndexOf(T.variants, TagVariant(next.tag)) > 0
                          THEN /\ ctl' = [op |-> "variant_seed", ty |-> ctl.ty,
                                          tag |-> TagVariant(next.tag), start |-> Pos]
                               /\ stack' = Enter(<< >>)
                          ELSE \* UnitVariantAccess::variant_seed
                               /\ ctl' = Deserialize(T.key)
                               /\ stack' = Enter(<<[k |-> "unit_variant", ty |-> ctl.ty]>>)
                       /\ UNCHANGED <<des, cells, log>>
                 [] next.k = "MappingStart" ->
                       /\ ctl' = [op |-> "variant_seed", ty |-> ctl.ty, tag |-> None,
                                  start |-> Pos]
                       /\ stack' = Enter(<<[k |-> "enum_map", start |-> Pos]>>)
                       /\ cells' = Advanced
                       /\ UNCHANGED <<des, log>>
                 [] next.k = "SequenceStart" ->
                       Return(Err(fix_marker(
                                  invalid_type("seq", "string or singleton map").e,
                                  PeekMark, Path)), cells)
                 [] OTHER ->
                       /\ ctl' = Panic("unexpected end")
                       /\ UNCHANGED <<stack, des, cells, log>>

\* the payload of variant number v is decoded through variant_visitor
Payload(ty, v, variant) ==
    /\ des' = Append(des, SubDeserializer(Segment("Map", 0, variant)))
    /\ stack' = Append(stack, [k |-> "variant", variant |-> v])
    /\ ctl' = Deserialize(TypeDef(ty).variants[v].ty)

\* EnumAccess::variant_seed, then the visitor's call on the VariantAccess
variant_seed ==
    /\ Running("variant_seed")
    /\ IF ctl.tag # None
       THEN Payload(ctl.ty, IndexOf(TypeDef(ctl.ty).variants, ctl.tag), ctl.tag)
            /\ cells' = cells
       ELSE IF AtEnd
       THEN ctl' = Ret(Err(end_of_stream)) /\ UNCHANGED <<stack, des, cells>>
       ELSE IF PeekEvent.k = "Scalar"
       THEN LET ret == Visit(TypeDef(ctl.ty).key, Callback("str", PeekEvent.value))
            IN /\ cells' = Advanced
               /\ IF ret.ok
                  THEN Payload(ctl.ty, ret.v.v, PeekEvent.value)
                  ELSE ctl' = Ret(ret) /\ UNCHANGED <<stack, des>>
       ELSE \* *self.de.pos -= 1; deserialize_any(&mut *self.de, bad).unwrap_err()
            /\ ctl' = Deserialize("BadKey")
            /\ stack' = Append(stack, [k |-> "bad_key"])
            /\ UNCHANGED <<des, cells>>
    /\ log' = log

bad_key_return ==
    /\ Returning("bad_key")
    /\ stack' = Front(stack)
    /\ ctl' = IF ctl.res.ok THEN Panic("called unwrap_err on an Ok value") ELSE Ret(ctl.res)
    /\ UNCHANGED <<des, cells, log>>

\* UnitVariantAccess: the variant name was read as a string; only a unit
\* variant can follow
unit_variant_return ==
    /\ Returning("unit_variant")
    /\ stack' = Front(stack)
    /\ ctl' = IF ~ctl.res.ok THEN Ret(ctl.res)
              ELSE LET kind == TypeDef(Top.ty).variants[ctl.res.v.v].kind
                   IN IF kind = "unit"
                      THEN Ret(Ok(Callback("enum", [variant |-> ctl.res.v.v, payload |-> Unit])))
                      ELSE Ret(invalid_type("unit variant", kind))
    /\ UNCHANGED <<des, cells, log>>

\* the payload has been decoded: variant_visitor is dropped
variant_return ==
    /\ Returning("variant")
    /\ des' = Front(des)
    /\ stack' = Front(stack)
    /\ ctl' = IF ctl.res.ok
              THEN Ret(Ok(Callback("enum", [variant |-> Top.variant, payload |-> ctl.res.v])))
              ELSE Ret(ctl.res)
    /\ UNCHANGED <<cells, log>>

\* visit_enum has returned to the MappingStart arm: self.end_mapping(1)
enum_map_return ==
    /\ Returning("enum_map")
    /\ stack' = Front(stack)
    /\ ctl' = IF ctl.res.ok
              THEN [op |-> "end_mapping", len |-> 1, total |-> 1,
                    value |-> ctl.res, start |-> Top.start, phase |-> "key"]
              ELSE Ret(ctl.res)
    /\ UNCHANGED <<des, cells, log>>

(***************************************************************************)
(* Returns through the remaining frames.                                   *)
(***************************************************************************)
\* .map_err(|err| error::fix_mark(err, mark, self.path))
map_err_fix_mark ==
    /\ Returning("fix")
    /\ stack' = Front(stack)
    /\ ctl' = IF ctl.res.ok THEN ctl
              ELSE Ret(Err(fix_marker(ctl.res.e, Top.mark, Path)))
    /\ UNCHANGED <<des, cells, log>>

\* the deserializer made by jump and its cursor are dropped
jump_return ==
    /\ Returning("jump")
    /\ stack' = Front(stack)
    /\ des' = Front(des)
    /\ cells' = Front(cells)
    /\ UNCHANGED <<ctl, log>>

\* visit_some / visit_newtype_struct hand the inner value on
visitor_wrap_return ==
    /\ Returning("wrap")
    /\ stack' = Front(stack)
    /\ ctl' = IF ctl.res.ok THEN Ret(Ok(Callback(Top.cb, ctl.res.v))) ELSE ctl
    /\ UNCHANGED <<des, cells, log>>

log_return ==
    /\ Returning("log")
    /\ stack' = Front(stack)
    /\ log' = IF Top.logged
              THEN Append(log, [start |-> Top.start, alias |-> Top.alias, ty |-> Top.ty,
                                depth |-> Top.depth, res |-> ctl.res])
              ELSE log
    /\ UNCHANGED <<ctl, des, cells>>

(***************************************************************************)
(* The loader alone.                                                       *)
(***************************************************************************)
Idle == [op |-> "idle"]
NoDocument == [events |-> << >>, aliases |-> << >>]
NoOut == [st |-> "none"]

InitLoader ==
    /\ parsed = 0
    /\ events = << >>
    /\ aliases = << >>
    /\ document_lengths = << >>
    /\ anchors = << >>
    /\ current_document_start = 0
    /\ load = [st |-> "run"]

InitMachine ==
    /\ document_count = 0
    /\ document = NoDocument
    /\ ctl = Idle
    /\ stack = << >>
    /\ des = << >>
    /\ cells = << >>
    /\ log = << >>
    /\ steps = 0
    /\ out = NoOut

InitLoad ==
    /\ input \in LoadStreams
    /\ pc = "load"
    /\ target = "Value"
    /\ InitLoader
    /\ InitMachine

NextLoad == Loader_new

SpecLoad == InitLoad /\ [][NextLoad]_vars

(***************************************************************************)
(* Deserializer::de (de.rs 99-129) around the loader and the decode.       *)
(***************************************************************************)
\* Loader::next_document(): the documents in stream order, each with its own
\* events and its alias index rebased to them
DocumentStarts == DOMAIN document_lengths
DocumentStart(n) ==
    CHOOSE s \in DocumentStarts : Cardinality({t \in DocumentStarts : t < s}) = n - 1
Document(n) ==
    LET start == DocumentStart(n)
        len == document_lengths[start]
    IN [events |-> [i \in 1..len |-> events[start + i]],
        aliases |-> [id \in {a \in DOMAIN aliases :
                                aliases[a] >= start /\ aliases[a] < start + len}
                        |-> aliases[id] - start]]
\* whether next_document() has a document left after `count` were handed out
next_document_is_some_once(count) == count = 0 /\ DocumentStarts # {}
next_document_is_some(count) == count < Cardinality(DocumentStarts)

\* the caller iterates over the documents of the stream (Progress::Iterable)
Iterating == out.st = "iter"

midVars == <<input, parsed, events, aliases, document_lengths, anchors,
             current_document_start, load, target, steps>>

\* let mut loader = Loader::new(self.progress)?;
de_loader_failed ==
    /\ pc = "load" /\ load.st = "err" /\ ~Iterating
    /\ out' = [st |-> "err", e |-> load.e]
    /\ pc' = "done"
    /\ UNCHANGED <<midVars, document_count, document, ctl, stack, des, cells, log>>

\* let document = loader.next_document().ok_or_else(error::end_of_stream)?;
\* then f on a fresh DeserializerFromEvents
de_next_document ==
    /\ pc = "load" /\ load.st = "ok" /\ ~Iterating
    /\ IF next_document_is_some(document_count)
       THEN /\ document' = Document(document_count + 1)
            /\ document_count' = document_count + 1
            /\ pc' = "decode"
            /\ cells' = <<0>>
            /\ des' = <<[remaining_depth |-> RecursionLimit, seg |-> Root, cell |-> 1]>>
            /\ ctl' = Deserialize(target)
            /\ out' = out
       ELSE /\ out' = [st |-> "err", e |-> end_of_stream]
            /\ pc' = "done"
            /\ UNCHANGED <<document, document_count, cells, des, ctl>>
    /\ UNCHANGED <<midVars, stack, log>>

\* f has returned: t?, then the stream must hold no further document
de_return ==
    /\ pc = "decode" /\ ctl.op = "ret" /\ stack = << >> /\ ~Iterating
    /\ out' = IF ~ctl.res.ok THEN [st |-> "err", e |-> ctl.res.e]
              ELSE IF next_document_is_some(document_count)
              THEN [st |-> "err", e |-> more_than_one_document]
              ELSE [st |-> "ok", v |-> ctl.res.v]
    /\ pc' = "done"
    /\ UNCHANGED <<midVars, document_count, document, ctl, stack, des, cells, log>>

\* what a panic or an abort leaves: of an iteration, the documents before it
Unwound(end) ==
    IF Iterating
    THEN [st |-> "iter", items |-> Append(out.items, [n |-> document_count, res |-> end])]
    ELSE end

\* a panic unwinds the whole call
de_panic ==
    /\ pc = "decode" /\ ctl.op = "panic"
    /\ out' = Unwound([st |-> "panic", msg |-> ctl.msg])
    /\ pc' = "done"
    /\ UNCHANGED <<midVars, document_count, document, ctl, stack, des, cells, log>>

\* recursion without end exhausts the call stack: the process is aborted
de_stack_overflow ==
    /\ pc = "decode" /\ Len(des) > StackRoom
    /\ out' = Unwound([st |-> "abort", msg |-> "stack overflow"])
    /\ pc' = "done"
    /\ UNCHANGED <<midVars, document_count, document, ctl, stack, des, cells, log>>

(***************************************************************************)
(* to_string: SerializerToYaml (ser.rs 554-870, 903-1110) builds a Yaml     *)
(* tree, YamlEmitter::dump writes it (ser.rs 68-82).  The text the emitter *)
(* writes is taken to parse back into the scalars, sequences and mappings  *)
(* of the tree; the style it gives a string is left open.                  *)
(***************************************************************************)
YamlBoolean(v) == [y |-> "Boolean", v |-> v]
YamlReal(v) == [y |-> "Real", v |-> v]
YamlString(v) == [y |-> "String", v |-> v]
YamlNull == [y |-> "Null"]
YamlArray(array) == [y |-> "Array", v |-> array]
YamlHash(hash) == [y |-> "Hash", v |-> hash]

serialize_bool(v) == YamlBoolean(v)
serialize_u64(v) == YamlReal(to_string(v))
serialize_str(value) == YamlString(value)
serialize_unit == YamlNull
serialize_unit_variant_unit(variant) == YamlNull
serialize_unit_variant(variant) == YamlString(variant)
singleton_hash(k, v) == YamlHash(<<<<k, v>>>>)

\* value.serialize(SerializerToYaml): the Serialize impl of the type picks
\* the method
RECURSIVE to_yaml(_, _)
to_yaml(ty, elem) ==
    LET T == TypeDef(ty)
    IN CASE T.t = "Bool" -> serialize_bool(elem.v)
         [] T.t = "U64" -> serialize_u64(elem.v)
         [] T.t = "Unit" -> serialize_unit
         [] T.t = "String" -> serialize_str(elem.v)
         [] T.t = "Newtype" -> to_yaml(T.of, elem.v)
         [] T.t \in {"Seq", "Tuple"} ->
               YamlArray([i \in 1..Len(elem.v) |-> to_yaml(T.of, elem.v[i])])
         [] T.t = "Map" ->
               YamlHash([i \in 1..Len(elem.v) |->
                           <<serialize_str(elem.v[i].key.v), to_yaml(T.of, elem.v[i].value)>>])
         [] T.t = "Struct" ->
               YamlHash([i \in 1..Len(T.fields) |->
                           <<serialize_str(T.fields[i].name),
                             to_yaml(T.fields[i].ty, elem.v[i].value)>>])
         [] T.t = "Enum" ->
               LET V == T.variants[elem.v.variant]
               IN IF V.kind = "unit" THEN serialize_unit_variant(V.name)
                  ELSE singleton_hash(serialize_str(V.name), to_yaml(V.ty, elem.v.payload))

\* YamlEmitter::dump, then the parser: the events of the text
EmitStyles == {"Plain", "DoubleQuoted"}
RECURSIVE dump(_, _)
dump(doc, style) ==
    CASE doc.y = "Boolean" -> <<YPlain(IF doc.v THEN T_true ELSE T_false)>>
      [] doc.y = "Real" -> <<YPlain(doc.v)>>
      [] doc.y = "Null" -> <<YPlain(T_tilde)>>
      [] doc.y = "String" -> <<YScalar(None, None, doc.v, style)>>
      [] doc.y = "Array" ->
            <<YSequenceStart(None)>>
                \o Flatten([i \in 1..Len(doc.v) |-> dump(doc.v[i], style)])
                \o <<YSequenceEnd>>
      [] doc.y = "Hash" ->
            <<YMappingStart(None)>>
                \o Flatten([i \in 1..Len(doc.v) |->
                               dump(doc.v[i][1], style) \o dump(doc.v[i][2], style)])
                \o <<YMappingEnd>>
to_string_events(ty, elem, style) == Stream1(dump(to_yaml(ty, elem), style))

\* values of the types, as their visitors build them
OfU64(n) == Callback("u64", Small(n))
OfStr(text) == Callback("str", text)
OfSeq(elems) == Callback("seq", elems)
OfMap(entries) == Callback("map", entries)
OfEnum(variant, payload) == Callback("enum", [variant |-> variant, payload |-> payload])
Entry(k, v) == [key |-> k, value |-> v]
Field(f, v) == Entry(Callback("field", f), v)
Typed(ty, v) == [ty |-> ty, v |-> v]
RoundTrips ==
    << Typed("Bool", Callback("bool", TRUE)),
       Typed("Bool", Callback("bool", FALSE)),
       Typed("U64", OfU64(0)),
       Typed("U64", OfU64(26)),
       Typed("U64", Callback("u64", Number(FALSE, DigitsOf(T_I64_MAX)))),
       Typed("U64", Callback("u64", Number(FALSE, DigitsOf(T_U64_MAX)))),
       Typed("Unit", Unit),
       Typed("String", OfStr(T_str)),
       Typed("String", OfStr(T_empty)),
       Typed("String", OfStr(T_tilde)),
       Typed("String", OfStr(T_null)),
       Typed("String", OfStr(T_true)),
       Typed("String", OfStr(T_1)),
       Typed("String", OfStr(T_0123)),
       Typed("String", OfStr(T_1_10)),
       Typed("String", OfStr(T_0x1A)),
       Typed("VecU64", OfSeq(<< >>)),
       Typed("VecU64", OfSeq(<<OfU64(1), OfU64(2)>>)),
       Typed("VecBool", OfSeq(<<Callback("bool", TRUE)>>)),
       Typed("VecString", OfSeq(<<OfStr(T_true), OfStr(T_tilde), OfStr(T_1)>>)),
       Typed("Tuple2", OfSeq(<<OfU64(1), OfU64(2)>>)),
       Typed("VecTuple2", OfSeq(<<OfSeq(<<OfU64(1), OfU64(2)>>), OfSeq(<<OfU64(2), OfU64(1)>>)>>)),
       Typed("MapU64", OfMap(<< >>)),
       Typed("MapU64", OfMap(<<Entry(OfStr(T_a), OfU64(1)), Entry(OfStr(T_b), OfU64(2))>>)),
       Typed("MapU64", OfMap(<<Entry(OfStr(T_1), OfU64(1)), Entry(OfStr(T_tilde), OfU64(2))>>)),
       Typed("VecMapU64", OfSeq(<<OfMap(<<Entry(OfStr(T_a), OfU64(1))>>), OfMap(<< >>)>>)),
       Typed("Data", OfMap(<<Field(1, OfStr(T_string))>>)),
       Typed("Data", OfMap(<<Field(1, OfStr(T_null))>>)),
       Typed("VecData", OfSeq(<<OfMap(<<Field(1, OfStr(T_1))>>)>>)),
       Typed("E", OfEnum(1, Unit)),
       Typed("E", OfEnum(2, OfSeq(<<OfU64(1), OfU64(2)>>))),
       Typed("VecE", OfSeq(<<OfEnum(1, Unit), OfEnum(2, OfSeq(<<OfU64(1), OfU64(2)>>))>>)),
       Typed("AB", OfMap(<<Field(1, OfEnum(1, Unit)),
                           Field(2, OfEnum(2, OfSeq(<<OfU64(1), OfU64(2)>>)))>>)),
       Typed("AB", OfMap(<<Field(1, OfEnum(2, OfSeq(<<OfU64(2), OfU64(1)>>))),
                           Field(2, OfEnum(1, Unit))>>)),
       Typed("Variant", OfEnum(1, OfU64(16))),
       Typed("VecVariant", OfSeq(<<OfEnum(1, OfU64(16)), OfEnum(1, OfU64(0))>>)),
       Typed("R", OfEnum(1, Unit)),
       Typed("R", OfEnum(2, OfEnum(1, Unit))),
       Typed("R", OfEnum(2, OfEnum(2, OfEnum(1, Unit)))),
       Typed("L", Callback("newtype", OfSeq(<< >>))),
       Typed("L", Callback("newtype", OfSeq(<<Callback("newtype", OfSeq(<< >>))>>))),
       Typed("M", Callback("newtype", OfMap(<< >>))),
       Typed("M", Callback("newtype",
                           OfMap(<<Entry(OfStr(T_a), Callback("newtype", OfMap(<< >>)))>>))) >>

(***************************************************************************)
(* Iterator for Deserializer (de.rs 132-168) and the Progress::Document    *)
(* arm of Deserializer::de (de.rs 102-111).                                *)
(***************************************************************************)
IterVars == <<input, parsed, events, aliases, document_lengths, anchors,
              current_document_start, load, target>>
\* the caller's record of a document: its number and what became of it
Item(n, res) == [n |-> n, res |-> res]
Items(items) == [st |-> "iter", items |-> items]
Dropped == [st |-> "dropped"]

\* let mut pos = 0;
document_pos_kept(previous) == previous
document_pos(previous) == 0

\* err.shared() and error::shared(err): the error behind an Arc, and the error
\* that holds that Arc
shared(err) == [kind |-> "Shared", err |-> err]
\* Progress::Fail(err) => return Some(Deserializer { progress: Progress::Fail(..) })
next_of_Fail_once(made) == IF made = 0 THEN "item" ELSE "done"
next_of_Fail(made) == "item"

\* Iterator::next: the first call runs Loader::new; then Some(document) while
\* the loader has one, a deserializer of the shared error if loading failed
Iterator_next ==
    /\ Iterating
    /\ \/ Len(out.items) < MaxDocuments
       \/ load.st = "ok" /\ ~next_document_is_some(document_count)
    /\ \/ pc = "load" /\ load.st # "run"
       \/ pc = "iter"
    /\ IF load.st = "err"
       THEN pc' = next_of_Fail(Len(out.items)) /\ UNCHANGED <<document, document_count>>
       ELSE IF next_document_is_some(document_count)
       THEN /\ document' = Document(document_count + 1)
            /\ document_count' = document_count + 1
            /\ pc' = "item"
       ELSE pc' = "done" /\ UNCHANGED <<document, document_count>>
    /\ UNCHANGED <<IterVars, machineVars, out>>

\* T::deserialize(document): de with Progress::Document, or with
\* Progress::Fail, where Loader::new returns the shared error
de_document ==
    /\ Iterating /\ pc = "item"
    /\ IF load.st = "err"
       THEN /\ out' = Items(Append(out.items, Item(0, [st |-> "err", e |-> shared(load.e)])))
            /\ pc' = "iter"
            /\ UNCHANGED machineVars
       ELSE /\ cells' = <<document_pos(IF cells = << >> THEN 0 ELSE cells[1])>>
            /\ des' = <<[remaining_depth |-> RecursionLimit, seg |-> Root, cell |-> 1]>>
            /\ ctl' = Deserialize(target)
            /\ stack' = << >>
            /\ log' = << >>
            /\ steps' = 0
            /\ pc' = "decode"
            /\ out' = out
    /\ UNCHANGED <<IterVars, document, document_count>>

\* the caller drops the document without decoding it
drop_document ==
    /\ Iterating /\ pc = "item"
    /\ out' = Items(Append(out.items, Item(document_count, Dropped)))
    /\ pc' = "iter"
    /\ UNCHANGED <<IterVars, machineVars, document, document_count>>

\* f has returned: return Ok(t), with no look at the rest of the stream
de_document_return ==
    /\ Iterating /\ pc = "decode" /\ ctl.op = "ret" /\ stack = << >>
    /\ out' = Items(Append(out.items,
                 Item(document_count,
                      IF ctl.res.ok THEN [st |-> "ok", v |-> ctl.res.v]
                      ELSE [st |-> "err", e |-> ctl.res.e])))
    /\ pc' = "iter"
    /\ UNCHANGED <<IterVars, machineVars, document, document_count>>

Init ==
    /\ \/ input \in Streams /\ target \in Types /\ out = NoOut
       \/ /\ \E i \in 1..Len(RoundTrips), style \in EmitStyles :
                /\ input = to_string_events(RoundTrips[i].ty, RoundTrips[i].v, style)
                /\ target = RoundTrips[i].ty
          /\ out = NoOut
       \/ input \in IterStreams /\ target \in IterTypes /\ out = Items(<< >>)
    /\ pc = "load"
    /\ InitLoader
    /\ document_count = 0
    /\ document = NoDocument
    /\ ctl = Idle
    /\ stack = << >>
    /\ des = << >>
    /\ cells = << >>
    /\ log = << >>
    /\ steps = 0

Next ==
    \/ Loader_new
    \/ de_loader_failed \/ de_next_document \/ de_return \/ de_panic
    \/ de_stack_overflow
    \/ Iterator_next \/ de_document \/ drop_document \/ de_document_return
    \/ deserialize_any \/ deserialize_scalar \/ deserialize_bool \/ deserialize_str
    \/ deserialize_option \/ deserialize_newtype_struct \/ deserialize_seq
    \/ deserialize_map \/ deserialize_struct \/ deserialize_enum
    \/ deserialize_ignored_any
    \/ visit_sequence \/ visit_mapping \/ recursion_check_return
    \/ visit_seq \/ next_element_seed \/ next_element_return
    \/ visit_map \/ next_key_seed \/ next_key_return \/ next_value_seed
    \/ next_value_return
    \/ ignore_any \/ end_sequence \/ end_mapping \/ drain_key_return \/ drain_return
    \/ variant_seed \/ bad_key_return \/ unit_variant_return \/ variant_return
    \/ enum_map_return
    \/ map_err_fix_mark \/ jump_return \/ visitor_wrap_return \/ log_return

Spec == Init /\ [][Next]_vars

(***************************************************************************)
(* Document structure, computed from the events alone.                     *)
(***************************************************************************)
\* Deserializer::de has returned to the caller of from_str
Done == pc = "done" /\ ~Iterating
Failed(kind) == out.st = "err" /\ out.e.kind = kind
Decoded == Done /\ document_count > 0

StartKinds == {"SequenceStart", "MappingStart"}
EndKinds == {"SequenceEnd", "MappingEnd"}
\* containers open just before the event at 1-based index i
OpenBefore(evs, i) ==
    Cardinality({j \in 1..(i - 1) : evs[j].ev.k \in StartKinds})
        - Cardinality({j \in 1..(i - 1) : evs[j].ev.k \in EndKinds})
\* index of the last event of the node that starts at index i
NodeLast(evs, i) ==
    IF evs[i].ev.k \in StartKinds
    THEN CHOOSE q \in (i + 1)..Len(evs) :
            /\ evs[q].ev.k \in EndKinds
            /\ OpenBefore(evs, q + 1) = OpenBefore(evs, i)
            /\ \A r \in (i + 1)..(q - 1) :
                  evs[r].ev.k \in EndKinds => OpenBefore(evs, r + 1) > OpenBefore(evs, i)
    ELSE i
\* the children of the container that starts at index i
Children(evs, i) ==
    {j \in (i + 1)..(NodeLast(evs, i) - 1) :
        evs[j].ev.k \notin EndKinds /\ OpenBefore(evs, j) = OpenBefore(evs, i) + 1}

Max(S) == CHOOSE m \in S : \A x \in S : x <= m
Endless == 8 * RecursionLimit
\* containers nested at the deepest point of the node at index i, aliases
\* expanded; Endless when an alias leads back into its own anchor
RECURSIVE Height(_, _, _, _)
Height(evs, als, i, fuel) ==
    IF fuel = 0 THEN Endless
    ELSE LET base == OpenBefore(evs, i)
             last == NodeLast(evs, i)
         IN Max({ CASE evs[j].ev.k \in StartKinds -> OpenBefore(evs, j) - base + 1
                    [] evs[j].ev.k = "Alias" ->
                          OpenBefore(evs, j) - base
                              + Height(evs, als, als[evs[j].ev.id] + 1, fuel - 1)
                    [] OTHER -> 0
                  : j \in i..last })
DocumentHeight ==
    Height(document.events, document.aliases, 1, Cardinality(DOMAIN document.aliases) + 1)

(***************************************************************************)
(* Properties of the loader.                                               *)
(***************************************************************************)
AnchorBearing(y) == y.k \in {"Scalar", "SequenceStart", "MappingStart"} /\ y.anchor # None
Defines(j, i) == AnchorBearing(input[j]) /\ input[j].anchor = input[i].anchor
DefinedBefore(i) == \E j \in 1..(i - 1) : Defines(j, i)
UndefinedAlias(i) == input[i].k = "Alias" /\ ~DefinedBefore(i)
UnknownAnchorAt(i) == load.st = "err" /\ load.e = unknown_anchor(i)

\* C5: an alias whose anchor no earlier event of the stream defines makes
\* Loader::new fail with an unknown-anchor error at the mark of that alias
\* event, and no other event gets that error.
C5_UnknownAnchorAtAlias ==
    /\ \A i \in 1..parsed : UndefinedAlias(i) => UnknownAnchorAt(i)
    /\ (load.st = "err" /\ load.e.kind = "UnknownAnchor") =>
           (load.e.pos = parsed /\ UndefinedAlias(parsed))

\* the alias came before the only definition of its anchor
C5_ForwardReferenceRejected ==
    /\ load.st = "err" /\ load.e.kind = "UnknownAnchor"
    /\ \E j \in (load.e.pos + 1)..Len(input) : Defines(j, load.e.pos)

DocumentOf(i) == Cardinality({j \in 1..i : input[j].k = "DocumentStart"})
DefinedInDocument(i) ==
    \E j \in 1..(i - 1) : Defines(j, i) /\ DocumentOf(j) = DocumentOf(i)

\* C6: an alias whose anchor is defined only in an earlier document of the
\* stream is rejected with an unknown-anchor error at the alias.
C6_AnchorsAreDocumentLocal ==
    \A i \in 1..parsed :
        (input[i].k = "Alias" /\ ~DefinedInDocument(i)) => UnknownAnchorAt(i)

(***************************************************************************)
(* Properties of Deserializer::de.                                         *)
(***************************************************************************)
DocumentsInStream == Cardinality({i \in 1..Len(input) : input[i].k = "DocumentStart"})
FirstDecoded == ctl.op = "ret" /\ stack = << >> /\ ctl.res.ok

\* C7: a value is returned only for a stream of exactly one document; a
\* stream without a document gives end-of-stream, and a second document
\* after a decoded first one gives more-than-one-document.
C7_ExactlyOneDocument ==
    (Done /\ load.st = "ok") =>
        /\ out.st = "ok" => (DocumentsInStream = 1 /\ FirstDecoded /\ out.v = ctl.res.v)
        /\ DocumentsInStream = 0 => Failed("EndOfStream")
        /\ (DocumentsInStream >= 2 /\ FirstDecoded) => Failed("MoreThanOneDocument")

C7_SecondDocumentRejected ==
    Done /\ DocumentsInStream >= 2 /\ FirstDecoded /\ Failed("MoreThanOneDocument")

(***************************************************************************)
(* Lengths of sequences and mappings.                                      *)
(***************************************************************************)
LengthMessage(found, expected, what) ==
    [code |-> "invalid_length", n |-> found, m |-> expected, s |-> <<what>>]
IsLengthError(e, found, expected, what) ==
    e.kind = "Message" /\ e.msg = LengthMessage(found, expected, what)
LongSequenceIntoTuple ==
    Done /\ target = "Tuple2" /\ \E m \in 3..MaxItems : input = Stream1(SmallSeq(m))

\* C9 as the specification states it: a 3-element sequence decodes into a
\* 2-tuple, the result being the first two elements.
C9_LongSequenceIntoTupleSucceeds ==
    (Done /\ target = "Tuple2" /\ input = Stream1(SmallSeq(3))) =>
        (out.st = "ok" /\ out.v = Callback("seq", <<Callback("u64", Small(1)), Callback("u64", Small(2))>>))

\* C9, amended: a sequence of m > 2 elements decoded into a 2-tuple fails
\* with invalid length m, expected 2, at the mark of the sequence.
C9_LongSequenceIntoTupleFails ==
    LongSequenceIntoTuple =>
        /\ out.st = "err"
        /\ IsLengthError(out.e, Cardinality(Children(document.events, 1)), 2, "sequence")
        /\ out.e.pos = document.events[1].mark

C9_LongSequenceRejected ==
    LongSequenceIntoTuple /\ out.st = "err" /\ input = Stream1(SmallSeq(3))

\* the step in which end_sequence / end_mapping returns
EndReturns ==
    /\ pc = "decode" /\ ctl.op \in {"end_sequence", "end_mapping"}
    /\ ctl'.op = "ret"
\* elements of the sequence, entries of the mapping being ended
HeldBy(op, start) ==
    IF op = "end_sequence" THEN Cardinality(Children(document.events, start + 1))
    ELSE Cardinality(Children(document.events, start + 1)) \div 2

\* C8: when end_sequence(n) / end_mapping(n) returns for a container that
\* holds m > n elements (entries), it returns invalid length m, expected n,
\* and the cursor is past the closing event of the container.
C8_UnconsumedElementsAreAnError ==
    [][EndReturns =>
          LET m == HeldBy(ctl.op, ctl.start)
              what == IF ctl.op = "end_sequence" THEN "sequence" ELSE "map"
          IN /\ m >= ctl.len
             /\ m > ctl.len =>
                   /\ ~ctl'.res.ok
                   /\ IsLengthError(ctl'.res.e, m, ctl.len, what)
                   /\ Pos' = NodeLast(document.events, ctl.start + 1)
             /\ m = ctl.len => ctl'.res.ok]_vars

\* a length error has been returned once the rest of a mapping was skipped
C8_LongMappingRejected ==
    /\ pc = "decode" /\ ctl.op = "ret" /\ ~ctl.res.ok
    /\ IsLengthError(ctl.res.e, 3, 1, "map")
    /\ Pos = Len(document.events)

EnumFromMapping ==
    Decoded /\ target \in {"Variant", "E"} /\ document.events[1].ev.k = "MappingStart"
Entries == Cardinality(Children(document.events, 1)) \div 2
PlainNumber(e) == e.k = "Scalar" /\ e.tag = None /\ e.style = "Plain" /\ IsDigits(e.value)
PlainNull(e) == e.k = "Scalar" /\ e.tag = None /\ e.style = "Plain" /\ parse_null(e.value)
\* the first entry names a variant of the target and holds a payload for it
FirstEntryValid ==
    LET evs == document.events
        key == evs[2].ev
    IN /\ key.k = "Scalar"
       /\ CASE target = "Variant" -> key.value = T_V /\ PlainNumber(evs[3].ev)
            [] target = "E" ->
                  \/ key.value = T_A /\ PlainNull(evs[3].ev)
                  \/ /\ key.value = T_B
                     /\ evs[3].ev.k = "SequenceStart"
                     /\ Len(evs) >= 6
                     /\ PlainNumber(evs[4].ev) /\ PlainNumber(evs[5].ev)
                     /\ evs[6].ev.k = "SequenceEnd"

\* C10: an enum decodes from a mapping only if the mapping has exactly one
\* entry; with k >= 2 entries, the first a valid variant, the result is
\* invalid length k, expected a map of 1 entry.
C10_EnumMappingHasOneEntry ==
    EnumFromMapping =>
        /\ out.st = "ok" => Entries = 1
        /\ (Entries = 1 /\ FirstEntryValid) => out.st = "ok"
        /\ (Entries >= 2 /\ FirstEntryValid) =>
               (out.st = "err" /\ IsLengthError(out.e, Entries, 1, "map"))

C10_TwoEntriesRejected ==
    /\ EnumFromMapping /\ Entries = 2 /\ FirstEntryValid
    /\ out.st = "err" /\ IsLengthError(out.e, 2, 1, "map")

(***************************************************************************)
(* The recursion limit.                                                    *)
(***************************************************************************)
AliasFuel == Cardinality(DOMAIN document.aliases) + 1
\* the event at index j, decoded in place, enters a container more than
\* RecursionLimit deep
TooDeepAt(j) ==
    LET evs == document.events
    IN CASE evs[j].ev.k \in StartKinds -> OpenBefore(evs, j) + 1 > RecursionLimit
         [] evs[j].ev.k = "Alias" ->
               OpenBefore(evs, j)
                   + Height(evs, document.aliases, document.aliases[evs[j].ev.id] + 1,
                            AliasFuel) > RecursionLimit
         [] OTHER -> FALSE
InvalidScalar(e) == e.k = "Scalar" /\ ~visit_scalar("Value", e).ok
\* the node at index i holds a scalar no visitor is given
BadNode(i) ==
    LET evs == document.events
    IN \/ InvalidScalar(evs[i].ev)
       \/ /\ evs[i].ev.k = "Alias"
          /\ \E r \in (document.aliases[evs[i].ev.id] + 1)..
                          NodeLast(evs, document.aliases[evs[i].ev.id] + 1) :
                InvalidScalar(evs[r].ev)
\* a too deep container is reached before any scalar error
DeepReached ==
    \E j \in 1..Len(document.events) :
        TooDeepAt(j) /\ \A i \in 1..(j - 1) : ~TooDeepAt(i) /\ ~BadNode(i)

NestedEntries == Cardinality({i \in 1..Len(stack) : stack[i].k = "recursion_check"})
DecodingValue == target = "Value" /\ document_count > 0
WithinLimit ==
    /\ des # << >> => Cur.remaining_depth \in 0..RecursionLimit
    /\ (pc = "decode" /\ ctl.op \in {"visit_seq", "visit_map"}) =>
           NestedEntries = RecursionLimit - Cur.remaining_depth

\* C1 as stated: through deserialize_any the result is the recursion-limit
\* error exactly when the document nests more than RecursionLimit
\* containers, aliases expanded.
C1_LimitExactlyWhenDeep ==
    (Done /\ DecodingValue) =>
        (Failed("RecursionLimitExceeded") <=> DocumentHeight > RecursionLimit)

\* C1, amended: the result is the recursion-limit error exactly when the
\* decode reaches, before any other error, a container nested more than
\* RecursionLimit deep; a document nested deeper never decodes; the budget
\* never goes below zero and the call neither panics nor overflows.
C1_LimitWhenDeepReached ==
    DecodingValue =>
        /\ WithinLimit
        /\ Done =>
              /\ out.st \in {"ok", "err"}
              /\ Failed("RecursionLimitExceeded") <=> DeepReached
              /\ DocumentHeight > RecursionLimit => out.st = "err"
              /\ DeepReached => DocumentHeight > RecursionLimit

\* the limit was hit inside the expansion of an alias
C1_DeepThroughAlias ==
    /\ Done /\ DecodingValue /\ Failed("RecursionLimitExceeded")
    /\ \E j \in 1..Len(document.events) :
          document.events[j].ev.k = "Alias" /\ TooDeepAt(j)
          /\ OpenBefore(document.events, j) < RecursionLimit

(***************************************************************************)
(* Aliases.                                                                *)
(***************************************************************************)
SelfStreams == {Stream1(d) : d \in SelfDocs}
OnlyKinds(kinds) == \A i \in 1..Len(input) : input[i].k \in kinds
StreamKinds == {"StreamStart", "StreamEnd", "DocumentStart", "DocumentEnd"}
\* a container holding an alias to itself, decoded by a method that follows it:
\* Value by deserialize_any, Vec<Value> and L by deserialize_seq, M by
\* deserialize_map
FollowsSelfAlias ==
    /\ input \in SelfStreams
    /\ \/ target = "Value"
       \/ target = "Vec" /\ input[3].k = "SequenceStart"
       \/ target = "L" /\ OnlyKinds(StreamKinds \cup {"SequenceStart", "SequenceEnd", "Alias"})
       \/ target = "M" /\ input[3].k = "MappingStart" /\ input[4].k = "Scalar"
                       /\ input[5].k = "Alias"

\* C2: decoding a container that holds an alias to its own anchor ends: the
\* decode takes a bounded number of steps, never has more than
\* RecursionLimit containers entered at once, can always take a step until
\* it is done, and its result is the recursion-limit error.
C2_SelfAliasTerminates ==
    FollowsSelfAlias =>
        /\ steps <= StepsPerEntry * (RecursionLimit + 1)
        /\ NestedEntries <= RecursionLimit
        /\ Done \/ ENABLED Next
        /\ Done => Failed("RecursionLimitExceeded")

C2_SelfAliasHitLimit ==
    /\ Done /\ FollowsSelfAlias /\ target = "M"
    /\ Failed("RecursionLimitExceeded")
    /\ steps > RecursionLimit

Ignoring == pc = "decode" /\ ctl.op = "ignore_any"
\* Data { expected: "string" }: field 1 is `expected`, field 0 the ignored ones
BombDecoded ==
    /\ out.st = "ok"
    /\ out.v.cb = "map"
    /\ \E i \in 1..Len(out.v.v) :
          /\ out.v.v[i].key.cb = "field" /\ out.v.v[i].key.v = 1
          /\ out.v.v[i].value.cb = "str" /\ out.v.v[i].value.v = T_string

\* containers of the skipped node still open once the events before the
\* 0-based cursor pos are consumed
OpenSince(start, pos) ==
    OpenBefore(document.events, pos + 1) - OpenBefore(document.events, start + 1)

\* C3: ignore_any moves the cursor one event at a time, makes no jump and
\* leaves the budget alone; it goes on while a container of the node it
\* started on is open and returns at the first event boundary where none
\* is, so it consumes the events of that one node, an alias in it being
\* one event.  The struct of test_bomb decodes although its unknown fields
\* nest aliases.
C3_SkipCoversOneNode ==
    /\ [][Ignoring =>
             /\ des' = des
             /\ Len(cells') = Len(cells)
             /\ Pos' = Pos + 1
             /\ ctl'.op \in {"ignore_any", "ret"}
             /\ ctl'.op = "ret" => (ctl'.res.ok /\ OpenSince(ctl.start, Pos') = 0)
             /\ ctl'.op = "ignore_any" => OpenSince(ctl.start, Pos') > 0]_vars
    /\ [][(pc = "decode" /\ pc' = "done" /\ input = Stream1(BombDoc) /\ target = "Data")
              => BombDecoded']_vars

\* the unknown field c: &c [*b, *b] of test_bomb has been skipped
C3_BombFieldSkipped ==
    /\ pc = "decode" /\ input = Stream1(BombDoc) /\ target = "Data"
    /\ ctl.op = "ret" /\ ctl.res.ok /\ ctl.res.v.cb = "ignored"
    /\ document.events[10].ev.k = "SequenceStart"
    /\ \A i \in 11..12 : document.events[i].ev.k = "Alias"
    /\ Pos = 13 /\ Cur.remaining_depth = RecursionLimit - 1

SameError(e, f) == e.kind = f.kind /\ e.msg = f.msg /\ e.pos = f.pos
SameResult(r, q) ==
    /\ r.ok = q.ok
    /\ r.ok => (r.v.cb = q.v.cb /\ r.v = q.v)
    /\ ~r.ok => SameError(r.e, q.e)
SameCall(a, b) == a.start = b.start /\ a.ty = b.ty /\ a.depth = b.depth

\* C4: a T::deserialize call at an Alias(id) event returns what the call of
\* the same type and budget returns at the event the alias index holds for
\* id (the anchored node decoded in place), and what every other call
\* through an alias to that node returns.
C4_AliasDecodesAsAnchoredNode ==
    \A j \in 1..(Len(log) - 1) :
        SameCall(log[Len(log)], log[j]) => SameResult(log[Len(log)].res, log[j].res)

\* an anchored tuple variant was decoded in place and again through its alias
C4_EnumAliasDecoded ==
    /\ Done /\ target = "VecE" /\ out.st = "ok"
    /\ \E i, j \in 1..Len(log) :
          /\ log[i].alias /\ ~log[j].alias /\ j < i /\ SameCall(log[i], log[j])
          /\ log[i].res.ok /\ log[i].res.v.cb = "enum" /\ log[i].res.v.v.variant = 2

(***************************************************************************)
(* Options.                                                                *)
(***************************************************************************)
\* deserialize_option is about to look at an event that is no alias
AtOption ==
    /\ pc = "decode" /\ ctl.op = "deserialize" /\ Method(ctl.ty) = "option"
    /\ Len(des) <= StackRoom /\ ~AtEnd /\ PeekEvent.k # "Alias"
NullText(e) == e.value = T_tilde \/ e.value = T_null
PlainScalar(e) == e.k = "Scalar" /\ e.style = "Plain"
\* visit_none has been called, the scalar consumed
YieldsNone ==
    /\ ctl'.op = "ret" /\ ctl'.res.ok /\ ctl'.res.v.cb = "none"
    /\ Pos' = Pos + 1
\* visit_some(self) is being called, nothing consumed
YieldsSome ==
    /\ ctl'.op = "deserialize" /\ ctl'.ty = TypeDef(ctl.ty).of
    /\ stack' # << >> /\ stack'[Len(stack')] = [k |-> "wrap", cb |-> "some"]
    /\ Pos' = Pos
YieldsInvalidNull ==
    /\ ctl'.op = "ret" /\ ~ctl'.res.ok /\ ctl'.res.e.msg.code = "invalid_value"
    /\ Pos' = Pos

\* C11 as stated: None exactly for a plain scalar, untagged or tagged
\* !!null, whose text is ~ or null; Some for every other event.
C11_NoneExactlyForNullText ==
    [][AtOption =>
          LET e == PeekEvent
              null == PlainScalar(e) /\ e.tag \in {None, TagNULL} /\ NullText(e)
          IN IF null THEN YieldsNone ELSE YieldsSome]_vars

\* C11, amended: None exactly for a plain scalar that is untagged with the
\* text ~, null or nothing at all, or tagged !!null with the text ~ or
\* null; a plain scalar tagged !!null with any other text is an
\* invalid-value error; every other scalar, sequence or mapping is Some.
C11_NoneForNullOrEmpty ==
    [][AtOption =>
          LET e == PeekEvent
              plain == PlainScalar(e)
              null == /\ plain
                      /\ \/ e.tag = None /\ (NullText(e) \/ e.value = T_empty)
                         \/ e.tag = TagNULL /\ NullText(e)
              bad == plain /\ e.tag = TagNULL /\ ~NullText(e)
          IN /\ null <=> YieldsNone
             /\ bad <=> YieldsInvalidNull
             /\ (~null /\ ~bad) <=> YieldsSome]_vars

\* Option<bool> has been decoded from the plain scalar null
C11_PlainNullIsNone ==
    /\ Done /\ target = "OptBool" /\ input = Stream1(<<YPlain(T_null)>>)
    /\ out.st = "ok" /\ out.v.cb = "none"

QuotedStyles == {"SingleQuoted", "DoubleQuoted", "Literal", "Folded"}
QuotedTilde == Stream1(<<YScalar(None, None, T_tilde, "SingleQuoted")>>)

\* C12: a scalar in a non-plain style is Some for deserialize_option
\* whatever its text and tag, ~, null and the empty text included; a quoted
\* ~ decoded as Option<bool> is handed to deserialize_bool, which rejects it.
C12_QuotedScalarIsSome ==
    /\ [][(AtOption /\ PeekEvent.k = "Scalar" /\ PeekEvent.style \in QuotedStyles)
              => YieldsSome]_vars
    /\ [][(pc = "decode" /\ pc' = "done" /\ target = "OptBool" /\ input = QuotedTilde)
              => (out'.st = "err" /\ out'.e.msg.code = "invalid_type")]_vars

\* deserialize_bool is asked for the quoted ~ of an Option<bool>
C12_QuotedTildeHandedToBool ==
    /\ pc = "decode" /\ target = "OptBool" /\ input = QuotedTilde
    /\ ctl.op = "deserialize" /\ ctl.ty = "Bool" /\ Pos = 0
    /\ stack # << >> /\ Top = [k |-> "wrap", cb |-> "some"]

(***************************************************************************)
(* Tagged scalars.                                                         *)
(***************************************************************************)
CoreTags == {TagBOOL, TagINT, TagFLOAT, TagNULL}
Signless(v) == IF v # << >> /\ v[1] \in {"-", "+"} THEN StripPrefix(v, 1) ELSE v
\* the text is one the tag allows
ValidFor(tag, v) ==
    CASE tag = TagBOOL -> v \in {T_true, T_false}
      [] tag = TagINT -> IsDigits(Signless(v))
      [] tag = TagFLOAT -> IsDigits(Signless(v)) \/ v = T_1_10
      [] tag = TagNULL -> v \in {T_tilde, T_null}
ExpectedFor(tag) ==
    CASE tag = TagBOOL -> "a boolean"
      [] tag = TagINT -> "an integer"
      [] tag = TagFLOAT -> "a float"
      [] tag = TagNULL -> "null"
\* the primitive type of the tag
OwnTypes(tag) ==
    CASE tag = TagBOOL -> {"Bool"}
      [] tag = TagINT -> {"U64"}
      [] tag = TagFLOAT -> {"F64"}
      [] tag = TagNULL -> {"Unit"}
\* the document is one scalar with a core tag
TaggedScalarDocument ==
    /\ Decoded /\ Len(document.events) = 1
    /\ document.events[1].ev.k = "Scalar"
    /\ document.events[1].ev.tag \in CoreTags

\* C13: a scalar with a core tag whose text the tag does not allow is an
\* invalid-value error naming what the tag expects, at the scalar's mark,
\* for deserialize_any and for the primitive type of the tag.
C13_BadTaggedScalarIsInvalidValue ==
    TaggedScalarDocument =>
        LET e == document.events[1].ev
        IN (target \in {"Value"} \cup OwnTypes(e.tag) /\ ~ValidFor(e.tag, e.value)) =>
               /\ out.st = "err"
               /\ out.e.kind = "Message"
               /\ out.e.msg.code = "invalid_value"
               /\ out.e.msg.s = <<"str", ExpectedFor(e.tag)>>
               /\ out.e.pos = document.events[1].mark

\* !!float str has been refused for f64
C13_BadFloatRejected ==
    /\ TaggedScalarDocument /\ target = "F64" /\ out.st = "err"
    /\ document.events[1].ev.tag = TagFLOAT /\ document.events[1].ev.value = T_str

(***************************************************************************)
(* Strings.                                                                *)
(***************************************************************************)
\* a String is asked for at a scalar
AtString ==
    /\ pc = "decode" /\ ctl.op = "deserialize" /\ ctl.ty = "String"
    /\ Len(des) <= StackRoom /\ ~AtEnd /\ PeekEvent.k = "Scalar"
RawText(e) == Callback("str", e.value)
NumberAliasAsString ==
    Stream1(<<YSequenceStart(None), YAnchored("x", T_1_10), YAlias("x"), YSequenceEnd>>)

\* C14: deserialize_str at a scalar returns the text of the scalar as it
\* is, whatever the style, the tag and the text, and consumes the scalar;
\* a String decoded through an alias of a scalar is the text of that scalar.
C14_StringIsRawText ==
    /\ [][AtString =>
             /\ ctl'.op = "ret" /\ ctl'.res.ok /\ ctl'.res.v = RawText(PeekEvent)
             /\ Pos' = Pos + 1]_vars
    /\ [][\A i \in 1..Len(log') :
             LET call == log'[i]
                 e == document.events[call.start + 1].ev
             IN (call.ty = "String" /\ e.k = "Scalar") =>
                    (call.res.ok /\ call.res.v = RawText(e))]_vars

\* test_number_alias_as_string: 1.10 and its alias are both the text 1.10
C14_NumberAliasAsString ==
    /\ Done /\ target = "VecString" /\ input = NumberAliasAsString
    /\ out.st = "ok"
    /\ out.v = Callback("seq", <<Callback("str", T_1_10), Callback("str", T_1_10)>>)
    /\ \E i \in 1..Len(log) : log[i].alias /\ log[i].ty = "String"

(***************************************************************************)
(* Untagged scalars.                                                       *)
(***************************************************************************)
\* deserialize_any, or a method that ends in visit_scalar, is at a plain
\* untagged scalar
AtPlainScalar ==
    /\ pc = "decode" /\ ctl.op = "deserialize" /\ Method(ctl.ty) \in {"any", "scalar"}
    /\ Len(des) <= StackRoom /\ ~AtEnd
    /\ PlainScalar(PeekEvent) /\ PeekEvent.tag = None
\* the visitor of the call is given the callback cb(v)
Given(cb, v) == ctl'.op = "ret" /\ ctl'.res = Visit(ctl.ty, Callback(cb, v))
\* [sign] 0 digit+
LeadingZero(v) ==
    LET s == Signless(v)
    IN Len(s) >= 2 /\ s[1] = "0" /\ \A i \in 2..Len(s) : s[i] \in Digits
Minus(n) == Number(TRUE, DecDigits(n))

\* C15: a plain untagged scalar that is an optional sign, a 0 and one or
\* more decimal digits is given to the visitor as a string, its text
\* unchanged; 0 alone and the radix-prefixed forms are given as integers,
\* 0x1A as 26.
C15_LeadingZeroIsString ==
    [][AtPlainScalar =>
          LET v == PeekEvent.value
          IN /\ LeadingZero(v) => Given("str", v)
             /\ v = T_0 => Given("u64", Small(0))
             /\ v = T_0x1A => Given("u64", Small(26))
             /\ v = <<"+">> \o T_0x1A => Given("u64", Small(26))
             /\ v = <<"-">> \o T_0x1A => Given("i64", Minus(26))
             /\ v = T_0o17 => Given("u64", Small(15))
             /\ v = T_0b101 => Given("u64", Small(5))
             /\ v = T_26 => Given("u64", Small(26))]_vars

\* -007 has been decoded as the string -007
C15_SignedLeadingZeroIsString ==
    /\ Done /\ target = "Value" /\ input = Stream1(<<YPlain(<<"-">> \o T_007)>>)
    /\ out.st = "ok" /\ out.v = Callback("str", <<"-">> \o T_007)

\* [sign] digits, not digits_but_not_number
IntegerText(v) == IsDigits(Signless(v)) /\ ~LeadingZero(v)
ValueOf(v) == Number(v[1] = "-", Canonical(DigitsOf(Signless(v))))
InRange(v, ty) ==
    LET mag == Canonical(DigitsOf(Signless(v)))
    IN IF v[1] = "-" THEN Signed(ty) /\ LessEq(mag, MIN(ty)) ELSE LessEq(mag, MAX(ty))
WidthOrder == <<"u64", "i64", "u128", "i128">>
\* the first of u64, i64, u128, i128 that holds the value
Width(v) == WidthOrder[CHOOSE i \in 1..4 : InRange(v, WidthOrder[i]) /\ \A j \in 1..(i - 1) : ~InRange(v, WidthOrder[j])]

\* C16: a plain untagged integer that fits one of u64, i64, u128, i128 is
\* given to the visitor as an integer of the first of these widths, in that
\* order, that holds it, with its exact value; one beyond both 64-bit ranges
\* is given as u128 or i128, not as a float or a string.
C16_IntegerAtFirstWidth ==
    [][AtPlainScalar =>
          LET v == PeekEvent.value
          IN /\ (IntegerText(v) /\ \E ty \in IntTypes : InRange(v, ty)) => Given(Width(v), ValueOf(v))
             /\ v = T_U64_OVER => Given("u128", ValueOf(v))
             /\ v = <<"-">> \o T_I64_UNDER => Given("i128", ValueOf(v))
             /\ v = T_0xFFFFFFFFFFFFFFFF => Given("u64", ValueOf(T_U64_MAX))
             /\ v = T_0x10000000000000000 => Given("u128", ValueOf(T_U64_OVER))]_vars

\* 2^64 has been given to the visitor of Value as a u128
C16_BeyondU64IsU128 ==
    /\ pc = "decode" /\ ctl.op = "ret" /\ target = "Value"
    /\ input = Stream1(<<YPlain(T_U64_OVER)>>)
    /\ ctl.res = Visit("Value", Callback("u128", ValueOf(T_U64_OVER)))

(***************************************************************************)
(* Positions of errors.                                                    *)
(***************************************************************************)
\* a failure of the decoding itself has been returned to the caller
DecodeFailed == Done /\ Failed("Message")
\* invalid value: ..., expected null  (deserialize_option at !!null)
BadNullOption(e) == e.msg.code = "invalid_value" /\ e.msg.s = <<"str", "null">>
\* invalid length n, expected map containing 1 entry  (deserialize_enum, end_mapping(1))
EnumMapWrongSize(e) == e.msg.code = "invalid_length" /\ e.msg.m = 1 /\ e.msg.s = <<"map">>

\* unknown variant `v`  (deserialize_enum, the key of the mapping)
UnknownVariantKey(e) == e.msg.code = "unknown_variant"

DocumentStartsIn == {i \in 1..Len(input) : input[i].k = "DocumentStart"}
NthDocumentStart(n) ==
    CHOOSE i \in DocumentStartsIn : Cardinality({j \in DocumentStartsIn : j < i}) = n - 1
NthDocumentEnd(n) ==
    CHOOSE i \in NthDocumentStart(n)..Len(input) :
        /\ input[i].k = "DocumentEnd"
        /\ \A j \in NthDocumentStart(n)..(i - 1) : input[j].k # "DocumentEnd"
FirstMark(n) == NthDocumentStart(n) + 1
NthNode(n) == SubSeq(input, NthDocumentStart(n) + 1, NthDocumentEnd(n) - 1)
\* the position of an error, counted from the first event of the document
Relative(e, n) == IF e.pos = NoPos THEN NoPos ELSE e.pos - FirstMark(n)
SameOutcome(a, b) ==
    /\ a.res.st = b.res.st
    /\ a.res.st = "ok" => a.res.v.cb = b.res.v.cb /\ a.res.v = b.res.v
    /\ a.res.st = "err" =>
          /\ a.res.e.kind = b.res.e.kind /\ a.res.e.msg = b.res.e.msg
          /\ a.res.e.path = b.res.e.path
          /\ Relative(a.res.e, a.n) = Relative(b.res.e, b.n)
DecodeBegins == Iterating /\ pc = "item" /\ pc' = "decode"
DecodeEnds == Iterating /\ pc = "decode" /\ pc' = "iter"

CallReturned ==
    /\ pc = "decode" /\ ctl.op = "ret" /\ ctl.res.ok
    /\ stack # << >> /\ Top.k = "log"
\* pos is one past the last event of the node whose first event follows start
NodeEndsAt(start, pos) ==
    IF document.events[start + 1].ev.k \in StartKinds
    THEN /\ pos > start + 1 /\ pos <= Len(document.events)
         /\ document.events[pos].ev.k \in EndKinds
         /\ OpenSince(start, pos) = 0
         /\ \A q \in (start + 1)..(pos - 1) : OpenSince(start, q) > 0
    ELSE pos = start + 1
AfterAlias ==
    Stream1(<<YMappingStart(None), YPlain(T_a), YAnchored("x", T_1),
              YPlain(T_b), YAlias("x"), YPlain(T_c), YPlain(T_3), YMappingEnd>>)

\* C20: when a call that began at the first event of a node returns a
\* value, the cursor it was given is one past the last event of the node:
\* one further for a scalar and for an alias, past the matching end event
\* for a sequence or a mapping; the cursor made for the target of an alias
\* is past the target.  A whole document that decodes is consumed whole.
C20_CursorPastNode ==
    /\ CallReturned =>
          /\ Top.alias => Pos = Top.at + 1
          /\ ~Top.alias => NodeEndsAt(Top.at, Pos)
    /\ (pc = "decode" /\ ctl.op = "ret" /\ ctl.res.ok /\ stack = << >>) =>
          cells = <<Len(document.events)>>

\* a: &x 1, b: *x, c: 3 has been decoded as a map of three entries: the
\* entry after the alias was read
C20_EntryAfterAliasDecoded ==
    /\ Done /\ out.st = "ok" /\ target = "MapU64" /\ input = AfterAlias
    /\ out.v.cb = "map" /\ Len(out.v.v) = 3

(***************************************************************************)
(* Round trip.                                                             *)
(***************************************************************************)
\* from_str has been given the text of to_string for the i-th value
IsTextOf(i, style) ==
    /\ target = RoundTrips[i].ty
    /\ input = to_string_events(RoundTrips[i].ty, RoundTrips[i].v, style)
ABValue == RoundTrips[33]

Balanced(evs) ==
    /\ OpenBefore(evs, Len(evs) + 1) = 0
    /\ \A i \in 1..Len(evs) : OpenBefore(evs, i + 1) >= 0
    /\ \A i \in 1..Len(evs) :
          evs[i].ev.k \in EndKinds =>
              \E j \in 1..(i - 1) :
                  /\ OpenBefore(evs, j) = OpenBefore(evs, i + 1)
                  /\ \A r \in (j + 1)..(i - 1) : OpenBefore(evs, r + 1) > OpenBefore(evs, j)
                  /\ evs[j].ev.k = (IF evs[i].ev.k = "SequenceEnd" THEN "SequenceStart"
                                    ELSE "MappingStart")
Resolvable(doc) ==
    \A i \in 1..Len(doc.events) :
        doc.events[i].ev.k = "Alias" => doc.events[i].ev.id \in DOMAIN doc.aliases
WellFormed(doc) == Balanced(doc.events) /\ Resolvable(doc)
Aborting == pc = "decode" /\ ctl.op = "panic"

\* C21: decoding a well-formed document (balanced container events, every
\* alias resolvable) into any target type never reaches one of the aborts of
\* the decoder; it ends in a value or an error result.
C21_NoAbortOnWellFormed ==
    (Aborting /\ ~Iterating) => ~WellFormed(document)

\* the abort met when an enum is decoded from a mapping without entries
C21_EnumFromEmptyMappingAborts ==
    /\ Aborting /\ ~Iterating /\ WellFormed(document)
    /\ ctl.msg = "unexpected end of mapping"
    /\ Len(document.events) = 2

(***************************************************************************)
(* The recursion guard and enums.                                          *)
(***************************************************************************)
\* the document is a value of enum R written with singleton maps: mappings
\* keyed V, the unit variant A, aliases
WrittenAsR ==
    \A i \in 1..Len(document.events) :
        LET e == document.events[i].ev
        IN \/ e.k \in {"MappingStart", "MappingEnd", "Alias"}
           \/ e.k = "Scalar" /\ e.value \in {T_V, T_A}
DecodingR == target = "R" /\ document_count > 0 /\ ~Iterating /\ WrittenAsR
\* the payload of an enum written as a singleton map is being decoded
InMapPayload ==
    /\ pc = "decode" /\ stack # << >> /\ Top.k = "variant" /\ Len(des) >= 2
    /\ Len(stack) >= 2 /\ stack[Len(stack) - 1].k = "enum_map"

\* C22: the payload of an enum written as a singleton map is decoded with a
\* budget one less than the caller's, and a recursive enum written with
\* singleton maps nested deeper than the limit, or with a mapping that
\* aliases itself, ends in the recursion-limit error.
C22_EnumPayloadIsGuarded ==
    /\ InMapPayload => Cur.remaining_depth = des[Len(des) - 1].remaining_depth - 1
    /\ (pc = "done" /\ DecodingR /\ DocumentHeight > RecursionLimit) =>
           Failed("RecursionLimitExceeded")

\* the mapping that aliases itself, decoded as R, exhausts the call stack
C22_SelfAliasedEnumOverflows ==
    /\ pc = "done" /\ DecodingR
    /\ DocumentHeight >= Endless
    /\ out.st = "abort"

\* singleton maps nested deeper than the limit decode to a value
C22_DeepEnumDecoded ==
    /\ pc = "done" /\ DecodingR
    /\ DocumentHeight = RecursionLimit + 1
    /\ out.st = "ok"

\* this step is an alias jump: a deserializer for the alias target is made
Jumped ==
    /\ pc = "decode" /\ des # << >> /\ Len(des') = Len(des) + 1
    /\ des'[Len(des')].seg.k = "Alias"

AtZeroBudget ==
    /\ pc = "decode" /\ ctl.op \in {"visit_sequence", "visit_mapping"}
    /\ Len(des) <= StackRoom /\ Cur.remaining_depth = 0

\* C24: outside the guarded descents still open, the budget is what it was
\* before them: the budget of the running deserializer is always the limit
\* less the descents that have not returned, whether the ones before
\* returned a value or an error; at budget zero the descent is refused with
\* the recursion-limit error, the budget and the cursor stay as they were
\* and nothing is decoded.
C24_BudgetRestoredOnReturn ==
    /\ [][(pc' = "decode" /\ des' # << >>) =>
             des'[Len(des')].remaining_depth = RecursionLimit - NestedEntries']_vars
    /\ [][AtZeroBudget =>
             /\ ctl' = Ret(Err(recursion_limit_exceeded(ctl.mark)))
             /\ UNCHANGED <<des, stack, cells>>]_vars

\* the descent refused at budget zero has returned its error through every
\* descent that was open, and the budget is the limit again
C24_RestoredAfterRefusal ==
    /\ pc = "decode" /\ ctl.op = "ret" /\ ~ctl.res.ok
    /\ ctl.res.e.kind = "RecursionLimitExceeded"
    /\ NestedEntries = 0 /\ Cur.remaining_depth = RecursionLimit
    /\ steps > 2 * RecursionLimit

(***************************************************************************)
(* Anchor ids.                                                             *)
(***************************************************************************)
\* the loader is about to take an anchor-bearing event from the parser
Anchoring ==
    /\ pc = "load" /\ load.st = "run" /\ parsed < Len(input)
    /\ AnchorBearing(NextYaml)
AnchoredSoFar == Cardinality({i \in 1..parsed : AnchorBearing(input[i])})

\* C25: each anchor-bearing event the loader takes is given an id that no
\* earlier anchor-bearing event of the load was given, the alias index maps
\* that id to the index the event occupies in the event array, and the
\* entries of the earlier ids stay as they were.
C25_AnchorIdsAreFresh ==
    [][Anchoring =>
          \E id \in DOMAIN aliases' \ DOMAIN aliases :
              /\ anchors'[NextYaml.anchor] = id
              /\ aliases'[id] = Len(events)
              /\ events'[aliases'[id] + 1].mark = NextMark
              /\ \A other \in DOMAIN aliases : aliases'[other] = aliases[other]]_vars

\* fewer ids are in the alias index than anchor-bearing events were loaded
C25_IdGivenTwice ==
    /\ pc = "load" /\ load.st # "err"
    /\ Cardinality(DOMAIN aliases) < AnchoredSoFar

\* the input event that last defined, before input event i, the anchor
\* named there
LastDefinition(i) == Max({j \in 1..(i - 1) : Defines(j, i)})
\* the input event that the loaded alias at index p of the event array
\* resolves to through its id and the alias index
ResolvesTo(p) == events[aliases[events[p].ev.id] + 1].mark
LoadedAliases == {p \in 1..Len(events) : events[p].ev.k = "Alias"}

\* C26: once the stream is loaded, every alias event resolves, through its
\* id and the alias index, to the anchor-bearing event that last defined its
\* anchor name before the alias.
C26_AliasResolvesToLastDefinition ==
    load.st = "ok" =>
        \A p \in LoadedAliases :
            /\ events[p].ev.id \in DOMAIN aliases
            /\ ResolvesTo(p) = LastDefinition(events[p].mark)

\* an alias of a loaded stream resolves to an event that defines another
\* anchor name
C26_AliasResolvesToOtherAnchor ==
    /\ load.st = "ok"
    /\ \E p \in LoadedAliases :
          /\ events[p].ev.id \in DOMAIN aliases
          /\ input[ResolvesTo(p)].anchor # input[events[p].mark].anchor

(***************************************************************************)
(* Stamping an error once.                                                 *)
(***************************************************************************)
ReturningError == pc = "decode" /\ ctl.op = "ret" /\ ~ctl.res.ok
\* an error is returning through a frame that stamps: map_err(fix_mark)
AtStamping == ReturningError /\ Len(des) <= StackRoom /\ stack # << >> /\ Top.k = "fix"
Unstamped(e) == e.kind = "Message" /\ e.pos = NoPos

\* C27: the stamping step of a frame gives its mark and path to a message
\* error without a position and returns every other error unchanged, and
\* an error that has a position keeps it through all the frames it goes on
\* to return through.
C27_StampedAtMostOnce ==
    /\ [][AtStamping =>
             /\ ctl'.op = "ret" /\ ~ctl'.res.ok
             /\ ctl'.res.e.kind = ctl.res.e.kind
             /\ IF Unstamped(ctl.res.e)
                THEN ctl'.res.e.pos = Top.mark /\ ctl'.res.e.path = Path
                ELSE ctl'.res.e = ctl.res.e]_vars
    /\ [][(ReturningError /\ ~Unstamped(ctl.res.e) /\ ctl'.op = "ret") =>
             /\ ~ctl'.res.ok
             /\ ctl'.res.e.kind = ctl.res.e.kind
             /\ ctl'.res.e = ctl.res.e]_vars

\* a message error stamped by an inner frame is at the stamping step of an
\* outer frame whose mark is another
C27_StampedErrorMeetsOuterFrame ==
    /\ AtStamping /\ ctl.res.e.kind = "Message"
    /\ ctl.res.e.pos # NoPos /\ ctl.res.e.pos # Top.mark

(***************************************************************************)
(* A boolean asked for and a boolean inferred.                             *)
(***************************************************************************)
\* deserialize_bool is taking a scalar event
BoolOnScalar ==
    /\ pc = "decode" /\ ctl.op = "deserialize" /\ Method(ctl.ty) = "bool"
    /\ Len(des) <= StackRoom /\ ~AtEnd /\ PeekEvent.k = "Scalar"
\* deserialize_any on the scalar calls visit_bool(b): a visitor that takes
\* nothing but visit_bool is given b
AnyVisitsBool(scalar, b) ==
    /\ visit_scalar("Bool", scalar).ok
    /\ visit_scalar("Bool", scalar).v = Callback("bool", b)
\* the step returns what visit_bool(b) returns
YieldsBool(b) == ctl'.op = "ret" /\ ctl'.res.ok /\ ctl'.res.v = Callback("bool", b)
\* deserialize_bool has returned from the scalar `scalar`
BoolReturned(scalar) ==
    /\ pc = "decode" /\ ctl.op = "ret" /\ Len(stack) >= 2
    /\ Top.k = "fix" /\ stack[Len(stack) - 1].k = "log"
    /\ Method(stack[Len(stack) - 1].ty) = "bool"
    /\ Pos >= 1 /\ document.events[Pos].ev = scalar

\* C28 as stated: on every scalar, deserialize_bool yields visit_bool(b)
\* exactly when deserialize_any on the scalar would call visit_bool(b).
C28_BoolAgreesWithAny ==
    [][BoolOnScalar =>
          \A b \in BOOLEAN : YieldsBool(b) <=> AnyVisitsBool(PeekEvent, b)]_vars

\* C28: deserialize_bool yields visit_bool(b) exactly when the scalar is
\* plain and its text is true or false, whatever its tag; on a scalar without
\* a tag that is exactly when deserialize_any would call visit_bool(b).
C28_BoolAgreesWithAnyUntagged ==
    [][BoolOnScalar =>
          \A b \in BOOLEAN :
              /\ YieldsBool(b) <=>
                     /\ PeekEvent.style = "Plain"
                     /\ PeekEvent.value = (IF b THEN T_true ELSE T_false)
              /\ PeekEvent.tag = None =>
                     (YieldsBool(b) <=> AnyVisitsBool(PeekEvent, b))]_vars

\* a plain true without a tag has been returned as a boolean, where
\* deserialize_any calls visit_bool as well
C28_PlainTrueReturned ==
    /\ BoolReturned(EvScalar(YPlain(T_true)))
    /\ ctl.res.ok /\ ctl.res.v = Callback("bool", TRUE)
    /\ AnyVisitsBool(EvScalar(YPlain(T_true)), TRUE)

\* a double-quoted !!bool true has been refused by deserialize_bool
C28_QuotedTaggedBoolRefused ==
    /\ BoolReturned(EvScalar(YScalar(None, TagBOOL, T_true, "DoubleQuoted")))
    /\ ~ctl.res.ok
    /\ AnyVisitsBool(EvScalar(YScalar(None, TagBOOL, T_true, "DoubleQuoted")), TRUE)

\* a plain !!int true has been returned as a boolean by deserialize_bool
C28_IntTaggedTrueReturned ==
    /\ BoolReturned(EvScalar(YScalar(None, TagINT, T_true, "Plain")))
    /\ ctl.res.ok /\ ctl.res.v = Callback("bool", TRUE)
    /\ ~AnyVisitsBool(EvScalar(YScalar(None, TagINT, T_true, "Plain")), TRUE)

(***************************************************************************)
(* An option asked for and a null inferred.                                *)
(***************************************************************************)
OptionOnScalar == AtOption /\ PeekEvent.k = "Scalar"
\* deserialize_any on the scalar calls visit_unit: a visitor that takes
\* nothing but visit_unit accepts it
AnyVisitsUnit(scalar) == visit_scalar("Unit", scalar).ok
\* deserialize_any on the scalar fails with the invalid value of !!null
AnyFailsNull(scalar) == visit_scalar("Value", scalar) = invalid_value("str", "null")
\* a scalar tagged !!null in a style that is not plain
QuotedNull(scalar) == scalar.style # "Plain" /\ scalar.tag = TagNULL
\* deserialize_option has called visit_some on the scalar `scalar`
SomeCalled(scalar) ==
    /\ pc = "decode" /\ ctl.op = "deserialize" /\ stack # << >>
    /\ Top = [k |-> "wrap", cb |-> "some"]
    /\ ~AtEnd /\ PeekEvent = scalar

\* C29 as stated: on every scalar, deserialize_option yields None exactly
\* when deserialize_any would call visit_unit, fails exactly when
\* deserialize_any would fail with the invalid value of !!null, and yields
\* Some otherwise.
C29_OptionAgreesWithAny ==
    [][OptionOnScalar =>
          /\ YieldsNone <=> AnyVisitsUnit(PeekEvent)
          /\ YieldsInvalidNull <=> AnyFailsNull(PeekEvent)
          /\ YieldsSome <=> (~AnyVisitsUnit(PeekEvent) /\ ~AnyFailsNull(PeekEvent))]_vars

\* C29: on every scalar that is not a !!null in a non-plain style,
\* deserialize_option yields None exactly when deserialize_any would call
\* visit_unit, fails exactly when deserialize_any would fail with the
\* invalid value of !!null, and yields Some otherwise; a !!null scalar in a
\* non-plain style is Some whatever its text.
C29_OptionAgreesWithAnyUnlessQuotedNull ==
    [][OptionOnScalar =>
          IF QuotedNull(PeekEvent) THEN YieldsSome
          ELSE /\ YieldsNone <=> AnyVisitsUnit(PeekEvent)
               /\ YieldsInvalidNull <=> AnyFailsNull(PeekEvent)
               /\ YieldsSome <=>
                      (~AnyVisitsUnit(PeekEvent) /\ ~AnyFailsNull(PeekEvent))]_vars

\* visit_some has been called on a plain !!bool true, which deserialize_any
\* neither takes for null nor refuses as a bad !!null
C29_SomeForTaggedBool ==
    /\ SomeCalled(EvScalar(YScalar(None, TagBOOL, T_true, "Plain")))
    /\ ~AnyVisitsUnit(PeekEvent) /\ ~AnyFailsNull(PeekEvent)

\* visit_some has been called on a folded !!null null, for which
\* deserialize_any calls visit_unit
C29_SomeForFoldedNull ==
    /\ SomeCalled(EvScalar(YScalar(None, TagNULL, T_null, "Folded")))
    /\ AnyVisitsUnit(PeekEvent)

\* visit_some has been called on a double-quoted !!null str, which
\* deserialize_any refuses
C29_SomeForQuotedBadNull ==
    /\ SomeCalled(EvScalar(YScalar(None, TagNULL, T_str, "DoubleQuoted")))
    /\ AnyFailsNull(PeekEvent)

\* visit_none has been called on a plain !!null ~, for which deserialize_any
\* calls visit_unit
C29_NoneForTaggedNull ==
    /\ pc = "decode" /\ ctl.op = "ret" /\ ctl.res.ok /\ ctl.res.v.cb = "none"
    /\ Pos >= 1
    /\ document.events[Pos].ev = EvScalar(YScalar(None, TagNULL, T_tilde, "Plain"))
    /\ AnyVisitsUnit(document.events[Pos].ev)

(***************************************************************************)
(* Iterating an input that could not be loaded.                            *)
(***************************************************************************)
\* the iterator's progress is Progress::Fail
IterationFailed == Iterating /\ load.st = "err"
\* a call to next is returning
NextReturns == pc \in {"load", "iter"} /\ pc' # pc
\* a deserializer handed out by next is being decoded
FailedDecoded ==
    /\ pc = "item" /\ Len(out'.items) = Len(out.items) + 1
    /\ out'.items[Len(out'.items)].res.st # "dropped"

\* C30: when the input could not be loaded, every call to next returns Some
\* and never None, the first call and every later one, and decoding any of
\* the deserializers returned gives the one error of the load, shared.
C30_FailedIterationNeverEnds ==
    /\ [][IterationFailed => pc' # "done"]_vars
    /\ [][(IterationFailed /\ NextReturns) => pc' = "item"]_vars
    /\ [][(IterationFailed /\ FailedDecoded) =>
             out'.items[Len(out'.items)].res = [st |-> "err", e |-> shared(load.e)]]_vars

\* next has been called MaxDocuments times on an input that could not be
\* loaded, and each deserializer decoded: all have given the same error
C30_SameErrorEveryTime ==
    /\ IterationFailed /\ Len(out.items) = MaxDocuments
    /\ \A i \in 1..MaxDocuments :
          /\ out.items[i].res.st = "err"
          /\ out.items[i].res.e.kind = "Shared"
          /\ out.items[i].res.e = shared(load.e)
====
